---- MODULE Spec2Model ----
(***************************************************************************)
(* WokiBrain: availability engine, booking transaction, lock manager and   *)
(* waitlist replay of the woki-brain repository.                           *)
(*                                                                         *)
(* Time is counted in minutes.  An ISO instant is the number of minutes    *)
(* since 00:00 UTC of the first modelled date; a date is a day index; a    *)
(* time of day "HH:MM" is the number of minutes since local midnight.      *)
(* All instants the program produces are printed by toISOString() (UTC),   *)
(* so comparing two such strings is comparing the numbers, and the         *)
(* "YYYY-MM-DD" prefix of an instant is its UTC day.                       *)
(* Tables T1, T2, ... are the numbers 1, 2, ...                            *)
(***************************************************************************)
EXTENDS Integers, Naturals, Sequences, FiniteSets, TLC

\* ---------------------------------------------------------------- bounds
\* number of createBooking invocations explored (HTTP calls and replay calls)
MaxCalls == 3
\* number of DELETE /woki/bookings/:id requests explored
MaxCancels == 1
\* number of createBooking invocations explored together with the review routes
MaxReviewCalls == 2
MaxProbeBookings == 2
MaxProbeBlackouts == 1
MaxProbeGaps == 2
\* length of the lists given to generateCombinations
MaxComboTables == 4

\* ------------------------------------------------------ program constants
MinutesPerDay == 1440
SlotMinutes == 15
DefaultLargeGroupThreshold == 10
DefaultLimit == 10
\* getTimeZoneOffset(_, 'America/Argentina/Buenos_Aires'), in minutes
TzOffsetMinutes == 0 - 180

\* an absent idempotency key, and an absent ("undefined") time of day
None == "none"
Absent == 0 - 1

\* ------------------------------------------------------------ the fixture
\* one restaurant R1 with one sector S1 (db.seed in the tests)
RestaurantId == "R1"
SectorId == "S1"
\* restaurant.windows: one evening service window, local time of day
ServiceWindows == << [start |-> 1245, end |-> 1290] >>
\* db.getTablesBySector("S1"), in insertion order
Tables == << [id |-> 1, minSize |-> 2, maxSize |-> 2],
             [id |-> 2, minSize |-> 9, maxSize |-> 10] >>
NoWindow == [start |-> Absent, end |-> Absent]
\* a second sector whose tables have the sizes of the seed tables T2, T3
\* (2-4 seats) and T4 (4-6 seats); the engine functions are called on it directly
TerraceId == "S2"
\* the restaurant of the second sector opens 20:10-20:55
TerraceRestaurantId == "R2"
TerraceWindows == << [start |-> 1210, end |-> 1255] >>
TerraceTables == << [id |-> 3, minSize |-> 2, maxSize |-> 4],
                    [id |-> 4, minSize |-> 2, maxSize |-> 4],
                    [id |-> 5, minSize |-> 4, maxSize |-> 6] >>

\* ------------------------------------------------------- sequence helpers
Range(s) == {s[i] : i \in 1..Len(s)}

RECURSIVE FlattenSeq(_)
FlattenSeq(ss) == IF ss = <<>> THEN <<>> ELSE Head(ss) \o FlattenSeq(Tail(ss))

Max2(a, b) == IF a > b THEN a ELSE b

\* Array.from(map.values()).sort(by start): the records of S ordered by
\* start; records with equal start keep their insertion (id) order
RECURSIVE SortByStart(_)
SortByStart(S) ==
  IF S = {} THEN <<>>
  ELSE LET m == CHOOSE x \in S : \A y \in S :
                  x.start < y.start \/ (x.start = y.start /\ x.id <= y.id)
       IN <<m>> \o SortByStart(S \ {m})

\* ------------------------------------------------------------- time
toZonedIso(date, time) == date * MinutesPerDay + time - TzOffsetMinutes

\* the "YYYY-MM-DD" prefix of an instant printed by toISOString()
IsoDatePrefix(ts) == ts \div MinutesPerDay

\* ------------------------------------------------------------- store reads
getBookingsByTablesAndDate(bks, tableIds, date) ==
  SortByStart({b \in bks : /\ b.status = "CONFIRMED"
                           /\ IsoDatePrefix(b.start) = date
                           /\ Range(b.tableIds) \cap Range(tableIds) # {}})

getBlackoutsByTables(bls, tableIds) ==
  SortByStart({b \in bls : b.tableId \in Range(tableIds)})

\* ------------------------------------------------------------- gaps
calculateComboCapacity_SmallestMin(tables) ==
  LET RECURSIVE LeastMin(_), SumMax(_)
      LeastMin(s) == IF s = <<>> THEN 0
                     ELSE IF Tail(s) = <<>> \/ Head(s).minSize < LeastMin(Tail(s))
                          THEN Head(s).minSize
                          ELSE LeastMin(Tail(s))
      SumMax(s) == IF s = <<>> THEN 0 ELSE Head(s).maxSize + SumMax(Tail(s))
  IN [minCapacity |-> LeastMin(tables), maxCapacity |-> SumMax(tables)]

calculateComboCapacity(tables) ==
  LET RECURSIVE SumMin(_), SumMax(_)
      SumMin(s) == IF s = <<>> THEN 0 ELSE Head(s).minSize + SumMin(Tail(s))
      SumMax(s) == IF s = <<>> THEN 0 ELSE Head(s).maxSize + SumMax(Tail(s))
  IN [minCapacity |-> SumMin(tables), maxCapacity |-> SumMax(tables)]

\* the sweep of findGapsInWindow over the sorted relevant bookings
RECURSIVE SweepBookings(_, _, _)
SweepBookings(relevant, currentTimeTs, winEndTs) ==
  IF relevant = <<>>
  THEN IF currentTimeTs < winEndTs
       THEN << [start |-> currentTimeTs, end |-> winEndTs] >>
       ELSE <<>>
  ELSE LET booking == Head(relevant)
           gap == IF currentTimeTs < booking.start
                  THEN << [start |-> currentTimeTs, end |-> booking.start] >>
                  ELSE <<>>
           next == IF booking.end > currentTimeTs THEN booking.end ELSE currentTimeTs
       IN gap \o SweepBookings(Tail(relevant), next, winEndTs)

findGapsInWindow(bookingSeq, windowStart, windowEnd) ==
  LET relevantBookings ==
        SelectSeq(bookingSeq, LAMBDA b : b.start < windowEnd /\ b.end > windowStart)
  IN SweepBookings(relevantBookings, windowStart, windowEnd)

\* the inner loop of filterGapsByBlackouts over the sorted overlapping blackouts
RECURSIVE SplitAroundBlackouts(_, _, _)
SplitAroundBlackouts(overlapping, currentStart, gapEnd) ==
  IF overlapping = <<>>
  THEN IF currentStart < gapEnd
       THEN << [start |-> currentStart, end |-> gapEnd] >>
       ELSE <<>>
  ELSE LET blackout == Head(overlapping)
           before == IF currentStart < blackout.start
                     THEN << [start |-> currentStart, end |-> blackout.start] >>
                     ELSE <<>>
       IN before \o SplitAroundBlackouts(Tail(overlapping),
                                         Max2(currentStart, blackout.end), gapEnd)

filterGapsByBlackouts(bls, gaps, tableIds) ==
  LET blackouts == getBlackoutsByTables(bls, tableIds)
      OneGap(gap) ==
        LET overlappingBlackouts ==
              SelectSeq(blackouts, LAMBDA b : b.start < gap.end /\ b.end > gap.start)
        IN IF overlappingBlackouts = <<>>
           THEN <<gap>>
           ELSE SplitAroundBlackouts(overlappingBlackouts, gap.start, gap.end)
  IN IF blackouts = <<>>
     THEN gaps
     ELSE FlattenSeq([i \in 1..Len(gaps) |-> OneGap(gaps[i])])

\* findComboGaps returns a single table's gaps as findTableGaps computed them
\* and filters the intersection of several tables' gaps by their blackouts
filterGapsByBlackoutsIfCombo(bls, gaps, tableIds) ==
  IF Len(tableIds) = 1 THEN gaps ELSE filterGapsByBlackouts(bls, gaps, tableIds)

findTableGaps(bks, bls, tableId, date, serviceWindows) ==
  LET bookings == getBookingsByTablesAndDate(bks, <<tableId>>, date)
  IN IF serviceWindows = <<>>
     THEN findGapsInWindow(bookings, toZonedIso(date, 0), toZonedIso(date, 1439))
     ELSE filterGapsByBlackouts(bls,
            FlattenSeq([i \in 1..Len(serviceWindows) |->
               findGapsInWindow(bookings,
                                toZonedIso(date, serviceWindows[i].start),
                                toZonedIso(date, serviceWindows[i].end))]),
            <<tableId>>)

RECURSIVE IntersectFrom_AdvancesEarlierStart(_, _, _, _)
IntersectFrom_AdvancesEarlierStart(gaps1, gaps2, i, j) ==
  IF i > Len(gaps1) \/ j > Len(gaps2) THEN <<>>
  ELSE LET gap1 == gaps1[i]
           gap2 == gaps2[j]
           overlapStart == IF gap1.start > gap2.start THEN gap1.start ELSE gap2.start
           overlapEnd == IF gap1.end < gap2.end THEN gap1.end ELSE gap2.end
           out == IF overlapStart < overlapEnd
                  THEN << [start |-> overlapStart, end |-> overlapEnd] >>
                  ELSE <<>>
       IN out \o (IF gap1.start < gap2.start
                  THEN IntersectFrom_AdvancesEarlierStart(gaps1, gaps2, i + 1, j)
                  ELSE IntersectFrom_AdvancesEarlierStart(gaps1, gaps2, i, j + 1))

\* the two-pointer merge of intersectGaps, from cursors i and j
RECURSIVE IntersectFrom(_, _, _, _)
IntersectFrom(gaps1, gaps2, i, j) ==
  IF i > Len(gaps1) \/ j > Len(gaps2) THEN <<>>
  ELSE LET gap1 == gaps1[i]
           gap2 == gaps2[j]
           overlapStart == IF gap1.start > gap2.start THEN gap1.start ELSE gap2.start
           overlapEnd == IF gap1.end < gap2.end THEN gap1.end ELSE gap2.end
           out == IF overlapStart < overlapEnd
                  THEN << [start |-> overlapStart, end |-> overlapEnd] >>
                  ELSE <<>>
       IN out \o (IF gap1.end < gap2.end
                  THEN IntersectFrom(gaps1, gaps2, i + 1, j)
                  ELSE IntersectFrom(gaps1, gaps2, i, j + 1))

intersectGaps(gaps1, gaps2) == IntersectFrom(gaps1, gaps2, 1, 1)

\* the loop of findComboGaps intersecting the tables' gap lists from index i
RECURSIVE IntersectAll(_, _, _)
IntersectAll(tableGaps, acc, i) ==
  IF i > Len(tableGaps) THEN acc
  ELSE IntersectAll(tableGaps, intersectGaps(acc, tableGaps[i]), i + 1)

ComboGapsOf(tableGaps) == IntersectAll(tableGaps, tableGaps[1], 2)

findComboGaps(bks, bls, tableIds, date, serviceWindows) ==
  IF Len(tableIds) = 0 THEN <<>>
  ELSE filterGapsByBlackoutsIfCombo(bls,
         ComboGapsOf([i \in 1..Len(tableIds) |->
            findTableGaps(bks, bls, tableIds[i], date, serviceWindows)]),
         tableIds)

\* Date.getMinutes() of an instant (the zone offset is a whole number of hours)
GetMinutes(ts) == ts % 60

roundToSlot(ts, slotMinutes, direction) ==
  LET minutes == GetMinutes(ts)
      remainder == minutes % slotMinutes
  IN IF remainder = 0 THEN ts
     ELSE IF direction = "up" THEN ts + (slotMinutes - remainder)
          ELSE ts - remainder

\* the while loop of filterGapsByDuration
RECURSIVE SlotsFrom(_, _, _)
SlotsFrom(currentStart, roundedEnd, durationMinutes) ==
  IF currentStart + durationMinutes <= roundedEnd
  THEN << [start |-> currentStart, end |-> currentStart + durationMinutes] >>
       \o SlotsFrom(currentStart + SlotMinutes, roundedEnd, durationMinutes)
  ELSE <<>>

filterGapsByDuration(gaps, durationMinutes) ==
  LET OneGap(gap) ==
        LET roundedStart == roundToSlot(gap.start, SlotMinutes, "up")
            roundedEnd == roundToSlot(gap.end, SlotMinutes, "down")
        IN IF roundedEnd - roundedStart >= durationMinutes
           THEN SlotsFrom(roundedStart, roundedEnd, durationMinutes)
           ELSE <<>>
  IN FlattenSeq([i \in 1..Len(gaps) |-> OneGap(gaps[i])])

\* ------------------------------------------------------------- wokibrain
getTablesBySector(sectorId) ==
  IF sectorId = SectorId THEN Tables
  ELSE IF sectorId = TerraceId THEN TerraceTables
  ELSE <<>>

\* db.getRestaurant(restaurantId).windows || []
restaurantWindows(restaurantId) ==
  IF restaurantId = RestaurantId THEN ServiceWindows
  ELSE IF restaurantId = TerraceRestaurantId THEN TerraceWindows
  ELSE <<>>

\* db.getRestaurant and db.getSector find their records and
\* sector.restaurantId === restaurantId
sectorOfRestaurant(restaurantId, sectorId) ==
  \/ restaurantId = RestaurantId /\ sectorId = SectorId
  \/ restaurantId = TerraceRestaurantId /\ sectorId = TerraceId

\* combine as it would be if the recursion restarted after `start` instead
\* of after the element just taken
RECURSIVE combine_RestartsAfterStart(_, _, _, _)
combine_RestartsAfterStart(arr, start, targetSize, combo) ==
  IF Len(combo) = targetSize THEN <<combo>>
  ELSE IF start > Len(arr) THEN <<>>
  ELSE FlattenSeq([k \in 1..(Len(arr) - start + 1) |->
         combine_RestartsAfterStart(arr, start + 1, targetSize,
                                    Append(combo, arr[start + k - 1]))])

\* the recursive helper combine(start, targetSize, combo) of generateCombinations
RECURSIVE combine(_, _, _, _)
combine(arr, start, targetSize, combo) ==
  IF Len(combo) = targetSize THEN <<combo>>
  ELSE IF start > Len(arr) THEN <<>>
  ELSE FlattenSeq([k \in 1..(Len(arr) - start + 1) |->
         combine(arr, start + k, targetSize, Append(combo, arr[start + k - 1]))])

generateCombinations(arr, minSize) ==
  IF minSize <= 0 \/ minSize > Len(arr) THEN <<>>
  ELSE FlattenSeq([k \in 1..(Len(arr) - minSize + 1) |->
         combine(arr, 1, minSize + k - 1, <<>>)])

\* idsA.localeCompare(idsB) < 0 on the joined table ids
RECURSIVE LexLess(_, _)
LexLess(a, b) ==
  IF b = <<>> THEN FALSE
  ELSE IF a = <<>> THEN TRUE
  ELSE IF Head(a) # Head(b) THEN Head(a) < Head(b)
  ELSE LexLess(Tail(a), Tail(b))

NoCandidate == [kind |-> "none", tableIds |-> <<>>, start |-> 0, end |-> 0,
                minCapacity |-> 0, maxCapacity |-> 0]

CandidateBefore_StartFirst(a, b, partySize) ==
  IF a.start # b.start THEN a.start < b.start
  ELSE IF a.kind # b.kind THEN a.kind = "single"
  ELSE IF a.maxCapacity - partySize # b.maxCapacity - partySize
       THEN a.maxCapacity - partySize < b.maxCapacity - partySize
  ELSE LexLess(a.tableIds, b.tableIds)

\* the comparator of candidates.sort in findCandidates: a sorts before b
CandidateBefore(a, b, partySize) ==
  IF a.kind # b.kind THEN a.kind = "single"
  ELSE IF a.start # b.start THEN a.start < b.start
  ELSE IF a.maxCapacity - partySize # b.maxCapacity - partySize
       THEN a.maxCapacity - partySize < b.maxCapacity - partySize
  ELSE LexLess(a.tableIds, b.tableIds)

\* the candidates pushed for one table or combination, one per slot
CandidatesOf(kind, tableIds, minCapacity, maxCapacity, gaps) ==
  [i \in 1..Len(gaps) |->
     [kind |-> kind, tableIds |-> tableIds,
      start |-> gaps[i].start, end |-> gaps[i].end,
      minCapacity |-> minCapacity, maxCapacity |-> maxCapacity]]

\* candidates.slice(0, limit)
Slice(s, limit) == SubSeq(s, 1, IF Len(s) < limit THEN Len(s) ELSE limit)

HasRequestedWindow(window) == window.start # Absent /\ window.end # Absent

findCandidates(bks, bls, sectorId, date, partySize, durationMinutes, serviceWindows, window, limit) ==
  LET tables == getTablesBySector(sectorId)
      hasRequestedWindow == HasRequestedWindow(window)
      requestedStartIso == toZonedIso(date, window.start)
      requestedEndIso == toZonedIso(date, window.end)
      activeWindows ==
        IF hasRequestedWindow
        THEN SelectSeq(serviceWindows, LAMBDA w :
               /\ requestedStartIso < toZonedIso(date, w.end)
               /\ requestedEndIso > toZonedIso(date, w.start))
        ELSE serviceWindows
      InRequested(gaps) ==
        IF hasRequestedWindow
        THEN SelectSeq(gaps, LAMBDA g :
               g.start >= requestedStartIso /\ g.end <= requestedEndIso)
        ELSE gaps
      SingleOf(table) ==
        IF partySize < table.minSize \/ partySize > table.maxSize THEN <<>>
        ELSE CandidatesOf("single", <<table.id>>, table.minSize, table.maxSize,
               InRequested(filterGapsByDuration(
                 findTableGaps(bks, bls, table.id, date, activeWindows),
                 durationMinutes)))
      tableIds == [i \in 1..Len(tables) |-> tables[i].id]
      combos == generateCombinations(tableIds, 2)
      TableOf(id) == CHOOSE t \in Range(tables) : t.id = id
      ComboWith(comboTableIds, capacity) ==
        IF partySize < capacity.minCapacity \/ partySize > capacity.maxCapacity
        THEN <<>>
        ELSE CandidatesOf("combo", comboTableIds,
               capacity.minCapacity, capacity.maxCapacity,
               InRequested(filterGapsByDuration(
                 findComboGaps(bks, bls, comboTableIds, date, activeWindows),
                 durationMinutes)))
      ComboOf(comboTableIds) ==
        ComboWith(comboTableIds, calculateComboCapacity(
          [i \in 1..Len(comboTableIds) |-> TableOf(comboTableIds[i])]))
  IN IF tables = <<>> THEN <<>>
     ELSE IF hasRequestedWindow /\ activeWindows = <<>> THEN <<>>
     ELSE Slice(SortSeq(FlattenSeq([i \in 1..Len(tables) |-> SingleOf(tables[i])])
                        \o FlattenSeq([i \in 1..Len(combos) |-> ComboOf(combos[i])]),
                        LAMBDA a, b : CandidateBefore(a, b, partySize)),
                limit)

\* candidates.length > 0 ? candidates[0] : null
FirstOrNone(candidates) ==
  IF Len(candidates) > 0 THEN candidates[1] ELSE NoCandidate

selectBestCandidate(bks, bls, sectorId, date, partySize, durationMinutes, serviceWindows, window) ==
  FirstOrNone(findCandidates(bks, bls, sectorId, date, partySize,
                             durationMinutes, serviceWindows, window, 1))

\* ------------------------------------------------------------- state
VARIABLES
  bookings,          \* db.bookings: the Booking records
  waitlist,          \* db.waitlist: the WaitlistEntry records
  idempotencyCache,  \* db.idempotencyCache: key -> stored Booking
  blackouts,         \* db.blackouts
  nextId,            \* source of generated ids and creation timestamps
  internalLock,      \* LockManager.internalLock: the promise last stored
  locks,             \* LockManager.locks: key -> promise
  pc,                \* per createBooking invocation: where it is suspended
  req,               \* per invocation: its arguments
  cand,              \* per invocation: the candidate it selected
  lockKey,           \* per invocation: the lock key it generated
  prevInternal,      \* per invocation: acquire's local prevInternal
  previous,          \* per invocation: acquire's local previous
  settled,           \* per invocation: which of its own promises are resolved
  result,            \* per invocation: the Booking returned or the error thrown
  replay,            \* the DELETE handler running tryPromoteWaitlist
  cancels,           \* number of DELETE requests made
  acquireOrder,      \* history: invocations in the order they called acquire
  grantOrder,        \* history: invocations in the order acquire returned to them
  inFlightAtCall,    \* history: per invocation, the invocations unfinished when made
  feasible,          \* history: per invocation, how many candidates it could choose from
  probe              \* the last direct call of an engine function or of a review
                     \* route: arguments and result

vars == << bookings, waitlist, idempotencyCache, blackouts, nextId, internalLock,
           locks, pc, req, cand, lockKey, prevInternal, previous, settled, result,
           replay, cancels, acquireOrder, grantOrder, inFlightAtCall, feasible,
           probe >>

Calls == 1..MaxCalls

\* promises: Promise.resolve(), and per acquire call its willLock, its p and
\* the chained promise previous.then(() => p) it stores in the map
ResolvedPromise == [kind |-> "resolved", call |-> 0]
WillLock(c) == [kind |-> "willLock", call |-> c]
PromiseP(c) == [kind |-> "p", call |-> c]
Chain(c) == [kind |-> "chain", call |-> c]

\* whether a promise is resolved: willLock once releaseInternal() ran, p once
\* release() ran, previous.then(() => p) once previous and then p are resolved
RECURSIVE IsResolved(_)
IsResolved(promise) ==
  IF promise.kind = "resolved" THEN TRUE
  ELSE IF promise.kind = "willLock" THEN settled[promise.call].willLock
  ELSE IF promise.kind = "p" THEN settled[promise.call].p
  ELSE IsResolved(previous[promise.call]) /\ settled[promise.call].p

generateLockKey(restaurantId, sectorId, tables, start) ==
  [restaurantId |-> restaurantId, sectorId |-> sectorId,
   tables |-> SortSeq(tables, LAMBDA a, b : a < b), start |-> start]

NoKey == [restaurantId |-> None, sectorId |-> None, tables |-> <<>>, start |-> 0]
NoRequest == [restaurantId |-> None, sectorId |-> None, partySize |-> 0,
              durationMinutes |-> 0, date |-> 0, key |-> None,
              window |-> NoWindow, origin |-> None]
NoResult == [kind |-> "none", bookingId |-> 0, error |-> None]
Returned(booking) == [kind |-> "ok", bookingId |-> booking.id, error |-> None]
Thrown(error) == [kind |-> "error", bookingId |-> 0, error |-> error]
NoEntry == [id |-> 0, restaurantId |-> None, sectorId |-> None, partySize |-> 0,
            durationMinutes |-> 0, date |-> 0, window |-> NoWindow, createdAt |-> 0]
IdleReplay == [phase |-> "idle", current |-> NoEntry, rest |-> <<>>, call |-> 0,
               promoted |-> <<>>, sectorId |-> None, date |-> 0,
               queuedAtStart |-> 0, seatableAtStart |-> FALSE, quiet |-> FALSE,
               calls |-> {}, waitlistAtStart |-> {}, bookingsAtStart |-> {}]

NoProbe == [op |-> "none", args |-> <<>>, out |-> <<>>]

Init ==
  /\ bookings = {}
  /\ waitlist = {}
  /\ idempotencyCache = << >>
  /\ blackouts = {}
  /\ nextId = 1
  /\ internalLock = ResolvedPromise
  /\ locks = << >>
  /\ pc = [c \in Calls |-> "idle"]
  /\ req = [c \in Calls |-> NoRequest]
  /\ cand = [c \in Calls |-> NoCandidate]
  /\ lockKey = [c \in Calls |-> NoKey]
  /\ prevInternal = [c \in Calls |-> ResolvedPromise]
  /\ previous = [c \in Calls |-> ResolvedPromise]
  /\ settled = [c \in Calls |-> [willLock |-> FALSE, p |-> FALSE]]
  /\ result = [c \in Calls |-> NoResult]
  /\ replay = IdleReplay
  /\ cancels = 0
  /\ acquireOrder = <<>>
  /\ grantOrder = <<>>
  /\ inFlightAtCall = [c \in Calls |-> {}]
  /\ feasible = [c \in Calls |-> 0]
  /\ probe = NoProbe

\* ------------------------------------------------------------- helpers
Put(f, k, v) == [x \in (DOMAIN f) \cup {k} |-> IF x = k THEN v ELSE f[x]]
Remove(f, k) == [x \in (DOMAIN f) \ {k} |-> f[x]]

IdleCalls == {c \in Calls : pc[c] = "idle"}
\* invocations are numbered in the order they are made
FreeCall == CHOOSE c \in IdleCalls : \A d \in IdleCalls : c <= d

\* the venue-local date of an instant
LocalDate(ts) == (ts + TzOffsetMinutes) \div MinutesPerDay

\* ------------------------------------------------------------- waitlist
\* addToWaitlist as it would be if it dropped the requested window
addToWaitlist_DropsWindow(nid, restaurantId, sectorId, partySize, durationMinutes, date, window) ==
  [id |-> nid, restaurantId |-> restaurantId, sectorId |-> sectorId,
   partySize |-> partySize, durationMinutes |-> durationMinutes, date |-> date,
   window |-> NoWindow, createdAt |-> nid]

addToWaitlist(nid, restaurantId, sectorId, partySize, durationMinutes, date, window) ==
  [id |-> nid, restaurantId |-> restaurantId, sectorId |-> sectorId,
   partySize |-> partySize, durationMinutes |-> durationMinutes, date |-> date,
   window |-> window, createdAt |-> nid]

\* entries.sort((a, b) => a.createdAt.localeCompare(b.createdAt)), stable
RECURSIVE SortByCreatedAt(_)
SortByCreatedAt(S) ==
  IF S = {} THEN <<>>
  ELSE LET m == CHOOSE x \in S : \A y \in S :
                  x.createdAt < y.createdAt \/ (x.createdAt = y.createdAt /\ x.id <= y.id)
       IN <<m>> \o SortByCreatedAt(S \ {m})

getWaitlistEntriesBySectorAndDate(wl, sectorId, date) ==
  SortByCreatedAt({e \in wl : e.sectorId = sectorId /\ e.date = date})

\* ------------------------------------------------------------- booking
\* assertWindowWithinService of routes.ts: TRUE when it throws
assertWindowWithinService(date, window, windows) ==
  /\ HasRequestedWindow(window)
  /\ windows # <<>>
  /\ ~ \E i \in 1..Len(windows) :
         /\ toZonedIso(date, window.start) < toZonedIso(date, windows[i].end)
         /\ toZonedIso(date, window.end) > toZonedIso(date, windows[i].start)

\* createBooking from its entry to its first suspension (await acquire) or
\* to its return or throw, given what selectBestCandidate returns: the
\* outcome and the store it leaves
CreateBookingWith(bks, wl, nid, r, candidate) ==
  LET windows == restaurantWindows(r.restaurantId)
      same == [outcome |-> "thrown", bookings |-> bks, waitlist |-> wl,
               nextId |-> nid, cand |-> NoCandidate, result |-> NoResult]
      waitlistEntry == addToWaitlist(nid, r.restaurantId, r.sectorId, r.partySize,
                                     r.durationMinutes, r.date, r.window)
      placeholderStart ==
        IF r.window.start # Absent THEN toZonedIso(r.date, r.window.start)
        ELSE IF windows # <<>> THEN toZonedIso(r.date, windows[1].start)
        ELSE toZonedIso(r.date, 0) + nid
      placeholder == [id |-> waitlistEntry.id, restaurantId |-> r.restaurantId,
                      sectorId |-> r.sectorId, tableIds |-> <<>>,
                      partySize |-> r.partySize, start |-> placeholderStart,
                      end |-> placeholderStart + r.durationMinutes,
                      durationMinutes |-> r.durationMinutes, status |-> "PENDING"]
      hasValidWindow == \E i \in 1..Len(windows) :
                          /\ r.window.start >= windows[i].start
                          /\ r.window.end <= windows[i].end
  IN IF r.partySize <= 0 \/ r.durationMinutes <= 0
        \/ r.durationMinutes % SlotMinutes # 0
        \/ (HasRequestedWindow(r.window) /\ r.window.start >= r.window.end)
     THEN [same EXCEPT !.result = Thrown("invalid_input")]
     ELSE IF r.key # None /\ r.key \in DOMAIN idempotencyCache
     THEN [same EXCEPT !.outcome = "returned",
                       !.result = Returned(idempotencyCache[r.key])]
     ELSE IF ~sectorOfRestaurant(r.restaurantId, r.sectorId)
     THEN [same EXCEPT !.result = Thrown("not_found")]
     ELSE IF candidate = NoCandidate
     THEN [outcome |-> "returned", bookings |-> bks \cup {placeholder},
           waitlist |-> wl \cup {waitlistEntry}, nextId |-> nid + 1,
           cand |-> NoCandidate, result |-> Returned(placeholder)]
     ELSE IF HasRequestedWindow(r.window) /\ ~hasValidWindow /\ windows # <<>>
     THEN [same EXCEPT !.result = Thrown("outside_service_window"), !.cand = candidate]
     ELSE [same EXCEPT !.outcome = "acquire", !.cand = candidate]

CreateBookingPrefix(bks, wl, nid, r) ==
  CreateBookingWith(bks, wl, nid, r,
    selectBestCandidate(bks, blackouts, r.sectorId, r.date, r.partySize,
                        r.durationMinutes, restaurantWindows(r.restaurantId), r.window))

\* invocation c is made with arguments r on the store (bks, waitlist): it runs
\* to its first suspension, which is inside lockManager.acquire (await
\* prevInternal, after internalLock was replaced by its willLock)
Invoke(c, r, bks, wl) ==
  \E eff \in {CreateBookingPrefix(bks, wl, nextId, r)} :
  LET acquiring == eff.outcome = "acquire"
  IN /\ bookings' = eff.bookings
     /\ waitlist' = eff.waitlist
     /\ nextId' = eff.nextId
     /\ req' = [req EXCEPT ![c] = r]
     /\ cand' = [cand EXCEPT ![c] = eff.cand]
     /\ result' = [result EXCEPT ![c] = eff.result]
     /\ pc' = [pc EXCEPT ![c] = IF acquiring THEN "awaitInternal" ELSE "done"]
     /\ lockKey' = [lockKey EXCEPT ![c] =
                      IF acquiring
                      THEN generateLockKey(r.restaurantId, r.sectorId,
                                           eff.cand.tableIds, eff.cand.start)
                      ELSE NoKey]
     /\ prevInternal' = [prevInternal EXCEPT ![c] =
                           IF acquiring THEN internalLock ELSE @]
     /\ internalLock' = IF acquiring THEN WillLock(c) ELSE internalLock
     /\ acquireOrder' = IF acquiring THEN Append(acquireOrder, c) ELSE acquireOrder
     /\ inFlightAtCall' = [inFlightAtCall EXCEPT ![c] =
                             {d \in Calls : pc[d] \notin {"idle", "done"}}]
     /\ feasible' = [feasible EXCEPT ![c] =
                       Len(findCandidates(bks, blackouts, r.sectorId, r.date, r.partySize,
                                          r.durationMinutes, restaurantWindows(r.restaurantId), r.window,
                                          DefaultLimit))]
     /\ UNCHANGED << idempotencyCache, blackouts, locks, previous, settled, grantOrder >>

Request(partySize, durationMinutes, window, key) ==
  [restaurantId |-> RestaurantId, sectorId |-> SectorId, partySize |-> partySize,
   durationMinutes |-> durationMinutes, date |-> 0, key |-> key, window |-> window,
   origin |-> "http"]

\* the request bodies explored: a small party early in the window, a small
\* party from 21:00 local, a large group for the whole window, a request
\* longer than the window and a small party, both with an Idempotency-Key
Requests == { Request(2, 30, NoWindow, None),
              Request(2, 30, [start |-> 1260, end |-> 1290], None),
              Request(10, 45, NoWindow, None),
              Request(2, 60, NoWindow, "k1"),
              Request(2, 30, NoWindow, "k1") }

\* POST /woki/bookings: the route's checks, then createBooking up to its
\* first suspension
Book(c, r) ==
  /\ IdleCalls # {}
  /\ c = FreeCall
  /\ Cardinality(IdleCalls) > (IF replay.phase = "running" THEN Len(replay.rest) ELSE 0)
  /\ replay' = IF replay.phase = "idle" THEN replay ELSE [replay EXCEPT !.quiet = FALSE]
  /\ UNCHANGED << cancels, probe >>
  /\ IF assertWindowWithinService(r.date, r.window, restaurantWindows(r.restaurantId))
     THEN /\ pc' = [pc EXCEPT ![c] = "done"]
          /\ req' = [req EXCEPT ![c] = r]
          /\ result' = [result EXCEPT ![c] = Thrown("outside_service_window")]
          /\ UNCHANGED << bookings, waitlist, idempotencyCache, blackouts, nextId,
                          internalLock, locks, cand, lockKey, prevInternal, previous,
                          settled, acquireOrder, grantOrder, inFlightAtCall, feasible >>
     ELSE Invoke(c, r, bookings, waitlist)

\* acquire as it would be without the internal lock: it reads and replaces
\* the key's promise whenever it is scheduled
AcquireInternal_SkipsInternalLock(c) ==
  /\ pc[c] = "awaitInternal"
  /\ previous' = [previous EXCEPT ![c] =
                    IF lockKey[c] \in DOMAIN locks THEN locks[lockKey[c]]
                    ELSE ResolvedPromise]
  /\ locks' = Put(locks, lockKey[c], Chain(c))
  /\ pc' = [pc EXCEPT ![c] = "awaitKey"]
  /\ UNCHANGED << bookings, waitlist, idempotencyCache, blackouts, nextId, internalLock,
                  req, cand, lockKey, prevInternal, settled, result, replay, cancels, probe,
                  acquireOrder, grantOrder, inFlightAtCall, feasible >>

\* acquire as it would be if it chained after Promise.resolve() instead of
\* the promise stored for the key
AcquireInternal_IgnoresStoredPromise(c) ==
  /\ pc[c] = "awaitInternal"
  /\ IsResolved(prevInternal[c])
  /\ previous' = [previous EXCEPT ![c] = ResolvedPromise]
  /\ locks' = Put(locks, lockKey[c], Chain(c))
  /\ pc' = [pc EXCEPT ![c] = "awaitKey"]
  /\ UNCHANGED << bookings, waitlist, idempotencyCache, blackouts, nextId, internalLock,
                  req, cand, lockKey, prevInternal, settled, result, replay, cancels, probe,
                  acquireOrder, grantOrder, inFlightAtCall, feasible >>

\* acquire resumes after await prevInternal: it chains its promise into the
\* map and suspends on await previous
AcquireInternal(c) ==
  /\ pc[c] = "awaitInternal"
  /\ IsResolved(prevInternal[c])
  /\ previous' = [previous EXCEPT ![c] =
                    IF lockKey[c] \in DOMAIN locks THEN locks[lockKey[c]]
                    ELSE ResolvedPromise]
  /\ locks' = Put(locks, lockKey[c], Chain(c))
  /\ pc' = [pc EXCEPT ![c] = "awaitKey"]
  /\ UNCHANGED << bookings, waitlist, idempotencyCache, blackouts, nextId, internalLock,
                  req, cand, lockKey, prevInternal, settled, result, replay, cancels, probe,
                  acquireOrder, grantOrder, inFlightAtCall, feasible >>

\* acquire as it would be if it returned without calling releaseInternal()
AcquireKey_KeepsInternalLock(c) ==
  /\ pc[c] = "awaitKey"
  /\ IsResolved(previous[c])
  /\ pc' = [pc EXCEPT ![c] = "locked"]
  /\ grantOrder' = Append(grantOrder, c)
  /\ UNCHANGED << bookings, waitlist, idempotencyCache, blackouts, nextId, internalLock,
                  locks, req, cand, lockKey, prevInternal, previous, settled, result,
                  replay, cancels, probe, acquireOrder, inFlightAtCall, feasible >>

\* acquire resumes after await previous: it returns the release function and
\* its finally block calls releaseInternal()
AcquireKey(c) ==
  /\ pc[c] = "awaitKey"
  /\ IsResolved(previous[c])
  /\ settled' = [settled EXCEPT ![c].willLock = TRUE]
  /\ pc' = [pc EXCEPT ![c] = "locked"]
  /\ grantOrder' = Append(grantOrder, c)
  /\ UNCHANGED << bookings, waitlist, idempotencyCache, blackouts, nextId, internalLock,
                  locks, req, cand, lockKey, prevInternal, previous, result, replay,
                  cancels, probe, acquireOrder, inFlightAtCall, feasible >>

\* the release function as it would be if it deleted the key's entry without
\* checking that the entry is still its own
ReleaseLocks_AlwaysDeletes(c) ==
  IF lockKey[c] \in DOMAIN locks THEN Remove(locks, lockKey[c]) ELSE locks

\* the release function returned by acquire: the lock table it leaves
ReleaseLocks(c) ==
  IF lockKey[c] \in DOMAIN locks /\ locks[lockKey[c]] = PromiseP(c)
  THEN Remove(locks, lockKey[c])
  ELSE locks

\* the try block of createBooking as it would be if the booking and the
\* idempotency result were stored before the double-check
LockedOutcome_StoresBeforeCheck(c) ==
  LET r == req[c]
      candidate == cand[c]
      same == [bookings |-> bookings, idempotencyCache |-> idempotencyCache,
               nextId |-> nextId, result |-> NoResult]
      conflictingBookings == getBookingsByTablesAndDate(bookings, candidate.tableIds, r.date)
      hasConflict == \E i \in 1..Len(conflictingBookings) :
                       /\ conflictingBookings[i].status = "CONFIRMED"
                       /\ conflictingBookings[i].start < candidate.end
                       /\ conflictingBookings[i].end > candidate.start
      requiresApproval == r.partySize >= DefaultLargeGroupThreshold
      booking == [id |-> nextId, restaurantId |-> r.restaurantId,
                  sectorId |-> r.sectorId, tableIds |-> candidate.tableIds,
                  partySize |-> r.partySize, start |-> candidate.start,
                  end |-> candidate.end, durationMinutes |-> r.durationMinutes,
                  status |-> IF requiresApproval THEN "PENDING" ELSE "CONFIRMED"]
  IN IF r.key # None /\ r.key \in DOMAIN idempotencyCache
     THEN [same EXCEPT !.result = Returned(idempotencyCache[r.key])]
     ELSE [bookings |-> bookings \cup {booking},
           idempotencyCache |-> IF r.key # None
                                THEN Put(idempotencyCache, r.key, booking)
                                ELSE idempotencyCache,
           nextId |-> nextId + 1,
           result |-> IF hasConflict THEN Thrown("no_capacity") ELSE Returned(booking)]

LockedOutcome_AboveThreshold(c) ==
  LET r == req[c]
      candidate == cand[c]
      same == [bookings |-> bookings, idempotencyCache |-> idempotencyCache,
               nextId |-> nextId, result |-> NoResult]
      conflictingBookings == getBookingsByTablesAndDate(bookings, candidate.tableIds, r.date)
      hasConflict == \E i \in 1..Len(conflictingBookings) :
                       /\ conflictingBookings[i].status = "CONFIRMED"
                       /\ conflictingBookings[i].start < candidate.end
                       /\ conflictingBookings[i].end > candidate.start
      requiresApproval == r.partySize > DefaultLargeGroupThreshold
      booking == [id |-> nextId, restaurantId |-> r.restaurantId,
                  sectorId |-> r.sectorId, tableIds |-> candidate.tableIds,
                  partySize |-> r.partySize, start |-> candidate.start,
                  end |-> candidate.end, durationMinutes |-> r.durationMinutes,
                  status |-> IF requiresApproval THEN "PENDING" ELSE "CONFIRMED"]
  IN IF r.key # None /\ r.key \in DOMAIN idempotencyCache
     THEN [same EXCEPT !.result = Returned(idempotencyCache[r.key])]
     ELSE IF hasConflict
     THEN [same EXCEPT !.result = Thrown("no_capacity")]
     ELSE [bookings |-> bookings \cup {booking},
           idempotencyCache |-> IF r.key # None
                                THEN Put(idempotencyCache, r.key, booking)
                                ELSE idempotencyCache,
           nextId |-> nextId + 1,
           result |-> Returned(booking)]

\* the try block of createBooking: what it does to the store and how it ends
LockedOutcome(c) ==
  LET r == req[c]
      candidate == cand[c]
      same == [bookings |-> bookings, idempotencyCache |-> idempotencyCache,
               nextId |-> nextId, result |-> NoResult]
      conflictingBookings == getBookingsByTablesAndDate(bookings, candidate.tableIds, r.date)
      hasConflict == \E i \in 1..Len(conflictingBookings) :
                       /\ conflictingBookings[i].status = "CONFIRMED"
                       /\ conflictingBookings[i].start < candidate.end
                       /\ conflictingBookings[i].end > candidate.start
      requiresApproval == r.partySize >= DefaultLargeGroupThreshold
      booking == [id |-> nextId, restaurantId |-> r.restaurantId,
                  sectorId |-> r.sectorId, tableIds |-> candidate.tableIds,
                  partySize |-> r.partySize, start |-> candidate.start,
                  end |-> candidate.end, durationMinutes |-> r.durationMinutes,
                  status |-> IF requiresApproval THEN "PENDING" ELSE "CONFIRMED"]
  IN IF r.key # None /\ r.key \in DOMAIN idempotencyCache
     THEN [same EXCEPT !.result = Returned(idempotencyCache[r.key])]
     ELSE IF hasConflict
     THEN [same EXCEPT !.result = Thrown("no_capacity")]
     ELSE [bookings |-> bookings \cup {booking},
           idempotencyCache |-> IF r.key # None
                                THEN Put(idempotencyCache, r.key, booking)
                                ELSE idempotencyCache,
           nextId |-> nextId + 1,
           result |-> Returned(booking)]

\* createBooking as it would be if releaseLock() were the last statement of
\* the try block instead of a finally block
LockedSection_ReleasesInTry(c) ==
  /\ pc[c] = "locked"
  /\ \E out \in {LockedOutcome(c)} :
        /\ bookings' = out.bookings
        /\ idempotencyCache' = out.idempotencyCache
        /\ nextId' = out.nextId
        /\ result' = [result EXCEPT ![c] = out.result]
        /\ settled' = [settled EXCEPT ![c].p = (out.result.kind = "ok")]
  /\ locks' = ReleaseLocks(c)
  /\ pc' = [pc EXCEPT ![c] = "done"]
  /\ UNCHANGED << waitlist, blackouts, internalLock, req, cand, lockKey, prevInternal,
                  previous, replay, cancels, probe, acquireOrder, grantOrder, inFlightAtCall,
                  feasible >>

\* createBooking resumes holding the lock: the try block, then finally
\* releaseLock()
LockedSection(c) ==
  /\ pc[c] = "locked"
  /\ \E out \in {LockedOutcome(c)} :
        /\ bookings' = out.bookings
        /\ idempotencyCache' = out.idempotencyCache
        /\ nextId' = out.nextId
        /\ result' = [result EXCEPT ![c] = out.result]
  /\ settled' = [settled EXCEPT ![c].p = TRUE]
  /\ locks' = ReleaseLocks(c)
  /\ pc' = [pc EXCEPT ![c] = "done"]
  /\ UNCHANGED << waitlist, blackouts, internalLock, req, cand, lockKey, prevInternal,
                  previous, replay, cancels, probe, acquireOrder, grantOrder, inFlightAtCall,
                  feasible >>

\* ------------------------------------------------------------- replay
EntryRequest(entry) ==
  [restaurantId |-> entry.restaurantId, sectorId |-> entry.sectorId,
   partySize |-> entry.partySize, durationMinutes |-> entry.durationMinutes,
   date |-> entry.date, key |-> None, window |-> entry.window, origin |-> "replay"]

\* the for loop of tryPromoteWaitlist from its head, on the entries still to
\* visit: it returns, or calls createBooking and suspends on its promise
ReplayLoop(bks, wl, entries, rp) ==
  IF entries = <<>>
  THEN /\ replay' = [rp EXCEPT !.phase = "finished", !.current = NoEntry, !.rest = <<>>]
       /\ bookings' = bks
       /\ waitlist' = wl
       /\ UNCHANGED << idempotencyCache, blackouts, nextId, internalLock, locks,
                       pc, req, cand, lockKey, prevInternal, previous, settled, result,
                       acquireOrder, grantOrder, inFlightAtCall, feasible >>
  ELSE /\ replay' = [rp EXCEPT !.phase = "running", !.current = Head(entries),
                               !.rest = Tail(entries), !.call = FreeCall,
                               !.calls = rp.calls \cup {FreeCall}]
       /\ Invoke(FreeCall, EntryRequest(Head(entries)), bks, wl)

\* some entry queued for the sector and local date can be seated on bks
Seatable(bks, wl, sectorId, date) ==
  \E e \in wl :
    /\ e.sectorId = sectorId /\ e.date = date
    /\ selectBestCandidate(bks, blackouts, e.sectorId, e.date, e.partySize,
                           e.durationMinutes, restaurantWindows(e.restaurantId),
                           e.window) # NoCandidate

QueuedFor(wl, sectorId, date) ==
  Cardinality({e \in wl : e.sectorId = sectorId /\ e.date = date})

\* DELETE /woki/bookings/:id: delete the booking, then tryPromoteWaitlist up
\* to its first suspension
Cancel(b) ==
  /\ b \in bookings
  /\ replay.phase # "running"
  /\ cancels < MaxCancels
  /\ cancels' = cancels + 1
  /\ UNCHANGED probe
  /\ LET entries == SortByCreatedAt(Range(
           getWaitlistEntriesBySectorAndDate(waitlist, b.sectorId, IsoDatePrefix(b.start))))
         bks1 == bookings \ {b}
         rp == [IdleReplay EXCEPT
                  !.sectorId = b.sectorId, !.date = LocalDate(b.start),
                  !.queuedAtStart = QueuedFor(waitlist, b.sectorId, LocalDate(b.start)),
                  !.seatableAtStart =
                     /\ Seatable(bks1, waitlist, b.sectorId, LocalDate(b.start))
                     /\ ~Seatable(bookings, waitlist, b.sectorId, LocalDate(b.start)),
                  !.quiet = \A c \in Calls : pc[c] \in {"idle", "done"},
                  !.waitlistAtStart = {e.id : e \in waitlist},
                  !.bookingsAtStart = {x.id : x \in bks1}]
     IN /\ Cardinality(IdleCalls) >= Len(entries)
        /\ ReplayLoop(bks1, waitlist, entries, rp)

\* tryPromoteWaitlist as it would be without the break after a promotion
ReplayStep_NoBreak ==
  /\ replay.phase = "running"
  /\ pc[replay.call] = "done"
  /\ UNCHANGED << cancels, probe >>
  /\ IF result[replay.call].kind = "ok"
     THEN ReplayLoop(bookings, {e \in waitlist : e.id # replay.current.id}, replay.rest,
                     [replay EXCEPT !.promoted = Append(@, replay.current)])
     ELSE ReplayLoop(bookings, waitlist, replay.rest, replay)

\* tryPromoteWaitlist resumes after await createBooking(...): on success it
\* deletes the entry and stops, on an error it continues with the next entry
ReplayStep ==
  /\ replay.phase = "running"
  /\ pc[replay.call] = "done"
  /\ UNCHANGED << cancels, probe >>
  /\ IF result[replay.call].kind = "ok"
     THEN /\ waitlist' = {e \in waitlist : e.id # replay.current.id}
          /\ replay' = [replay EXCEPT !.phase = "finished",
                                      !.promoted = <<replay.current>>]
          /\ UNCHANGED << bookings, idempotencyCache, blackouts, nextId, internalLock,
                          locks, pc, req, cand, lockKey, prevInternal, previous, settled,
                          result, acquireOrder, grantOrder, inFlightAtCall, feasible >>
     ELSE ReplayLoop(bookings, waitlist, replay.rest, replay)

Next ==
  \/ \E c \in Calls, r \in Requests : Book(c, r)
  \/ \E c \in Calls : AcquireInternal(c)
  \/ \E c \in Calls : AcquireKey(c)
  \/ \E c \in Calls : LockedSection(c)
  \/ \E b \in bookings : Cancel(b)
  \/ ReplayStep

Spec == Init /\ [][Next]_vars

\* the event loop runs every continuation whose promise is resolved
Fairness ==
  \A c \in Calls : /\ WF_vars(AcquireInternal(c))
                   /\ WF_vars(AcquireKey(c))
                   /\ WF_vars(LockedSection(c))

FairSpec == Spec /\ Fairness

\* the stores after a party of two was seated on table 1 from 20:45 and
\* either a request for 60 minutes, longer than the service window, or two
\* requests for 30 minutes were queued
SeededBooking ==
  [id |-> 1, restaurantId |-> RestaurantId, sectorId |-> SectorId, tableIds |-> <<1>>,
   partySize |-> 2, start |-> toZonedIso(0, 1245), end |-> toZonedIso(0, 1245) + 30,
   durationMinutes |-> 30, status |-> "CONFIRMED"]

SeededEntry == addToWaitlist(2, RestaurantId, SectorId, 2, 60, 0, NoWindow)

SeededPlaceholder ==
  [id |-> 2, restaurantId |-> RestaurantId, sectorId |-> SectorId, tableIds |-> <<>>,
   partySize |-> 2, start |-> toZonedIso(0, 1245), end |-> toZonedIso(0, 1245) + 60,
   durationMinutes |-> 60, status |-> "PENDING"]

SeededEntries == {addToWaitlist(i, RestaurantId, SectorId, 2, 30, 0, NoWindow) : i \in 2..3}

SeededPlaceholders ==
  {[id |-> i, restaurantId |-> RestaurantId, sectorId |-> SectorId, tableIds |-> <<>>,
    partySize |-> 2, start |-> toZonedIso(0, 1245), end |-> toZonedIso(0, 1245) + 30,
    durationMinutes |-> 30, status |-> "PENDING"] : i \in 2..3}

InitSeeded ==
  /\ \/ /\ bookings = {SeededBooking, SeededPlaceholder}
        /\ waitlist = {SeededEntry}
        /\ nextId = 3
     \/ /\ bookings = {SeededBooking} \cup SeededPlaceholders
        /\ waitlist = SeededEntries
        /\ nextId = 4
  /\ idempotencyCache = << >>
  /\ blackouts = {}
  /\ internalLock = ResolvedPromise
  /\ locks = << >>
  /\ pc = [c \in Calls |-> "idle"]
  /\ req = [c \in Calls |-> NoRequest]
  /\ cand = [c \in Calls |-> NoCandidate]
  /\ lockKey = [c \in Calls |-> NoKey]
  /\ prevInternal = [c \in Calls |-> ResolvedPromise]
  /\ previous = [c \in Calls |-> ResolvedPromise]
  /\ settled = [c \in Calls |-> [willLock |-> FALSE, p |-> FALSE]]
  /\ result = [c \in Calls |-> NoResult]
  /\ replay = IdleReplay
  /\ cancels = 0
  /\ acquireOrder = <<>>
  /\ grantOrder = <<>>
  /\ inFlightAtCall = [c \in Calls |-> {}]
  /\ feasible = [c \in Calls |-> 0]
  /\ probe = NoProbe

SpecSeeded == InitSeeded /\ [][Next]_vars

\* ------------------------------------------------ approval of bookings
\* db.getBooking(id): the bookings stored under the id
getBooking(id) == { b \in bookings : b.id = id }

\* db.updateBooking(id, updates) on the status field (updatedAt is not modelled)
updateBooking(bks, id, status) ==
  { IF b.id = id THEN [b EXCEPT !.status = status] ELSE b : b \in bks }

\* db.deleteBooking(id)
deleteBooking(bks, id) == { b \in bks : b.id # id }

\* the ids a reviewer can send: those generated so far and one never generated
ReviewIds == 1..nextId

\* what an approve or reject route answers for the id, before it acts
ReviewAnswer_AnyStatus(id) ==
  IF getBooking(id) = {} THEN "not_found" ELSE "ok"

ReviewAnswer(id) ==
  IF getBooking(id) = {} THEN "not_found"
  ELSE IF \E b \in getBooking(id) : b.status # "PENDING" THEN "invalid_input"
  ELSE "ok"

\* POST /woki/bookings/:id/approve
Approve(id) ==
  /\ probe' = [op |-> "approve", args |-> id, out |-> ReviewAnswer(id)]
  /\ bookings' = IF ReviewAnswer(id) = "ok"
                 THEN updateBooking(bookings, id, "CONFIRMED")
                 ELSE bookings
  /\ replay' = IF replay.phase = "idle" THEN replay ELSE [replay EXCEPT !.quiet = FALSE]
  /\ UNCHANGED << waitlist, idempotencyCache, blackouts, nextId, internalLock, locks, pc,
                  req, cand, lockKey, prevInternal, previous, settled, result, cancels,
                  acquireOrder, grantOrder, inFlightAtCall, feasible >>

\* POST /woki/bookings/:id/reject
Reject(id) ==
  /\ probe' = [op |-> "reject", args |-> id, out |-> ReviewAnswer(id)]
  /\ bookings' = IF ReviewAnswer(id) = "ok"
                 THEN deleteBooking(bookings, id)
                 ELSE bookings
  /\ replay' = IF replay.phase = "idle" THEN replay ELSE [replay EXCEPT !.quiet = FALSE]
  /\ UNCHANGED << waitlist, idempotencyCache, blackouts, nextId, internalLock, locks, pc,
                  req, cand, lockKey, prevInternal, previous, settled, result, cancels,
                  acquireOrder, grantOrder, inFlightAtCall, feasible >>

\* the request bodies explored together with the review routes: a large
\* group for the whole window, a small party early in the window and a small
\* party from 21:00 local
ReviewRequests == { Request(10, 45, NoWindow, None),
                    Request(2, 30, NoWindow, None),
                    Request(2, 30, [start |-> 1260, end |-> 1290], None) }

\* the calls of createBooking explored together with the review routes
ReviewCalls == 1..MaxReviewCalls

NextReview ==
  \/ \E c \in ReviewCalls, r \in ReviewRequests : Book(c, r)
  \/ \E c \in ReviewCalls : AcquireInternal(c)
  \/ \E c \in ReviewCalls : AcquireKey(c)
  \/ \E c \in ReviewCalls : LockedSection(c)
  \/ \E id \in ReviewIds : Approve(id)
  \/ \E id \in ReviewIds : Reject(id)
  \/ \E b \in bookings : Cancel(b)
  \/ ReplayStep

SpecReview == Init /\ [][NextReview]_vars

\* ------------------------------------------ the second restaurant alone
TerraceRequest(partySize, durationMinutes, window) ==
  [restaurantId |-> TerraceRestaurantId, sectorId |-> TerraceId, partySize |-> partySize,
   durationMinutes |-> durationMinutes, date |-> 0, key |-> None, window |-> window,
   origin |-> "http"]

\* request bodies for the second restaurant, all for a party of 5 (which fits
\* the 4-6 table alone): a quarter of an hour, the whole 45 minutes of the
\* service window, 15 and 30 minutes between 20:00 and 20:30 (a window that
\* starts before the restaurant opens), and 15 minutes between 19:00 and 19:30
TerraceRequests ==
  { TerraceRequest(5, 15, NoWindow),
    TerraceRequest(5, 45, NoWindow),
    TerraceRequest(5, 15, [start |-> 1200, end |-> 1230]),
    TerraceRequest(5, 30, [start |-> 1200, end |-> 1230]),
    TerraceRequest(5, 15, [start |-> 1140, end |-> 1170]) }

NextTerrace ==
  \/ \E c \in Calls, r \in TerraceRequests : Book(c, r)
  \/ \E c \in Calls : AcquireInternal(c)
  \/ \E c \in Calls : AcquireKey(c)
  \/ \E c \in Calls : LockedSection(c)

SpecTerrace == Init /\ [][NextTerrace]_vars

\* request bodies for the second restaurant that can fail: a quarter of an
\* hour with and without an Idempotency-Key, a window that ends before the
\* restaurant opens, a duration off the grid and a sector of another
\* restaurant
ErrorRequests ==
  { TerraceRequest(5, 15, NoWindow),
    [TerraceRequest(5, 15, NoWindow) EXCEPT !.key = "k1"],
    TerraceRequest(5, 15, [start |-> 1140, end |-> 1170]),
    TerraceRequest(5, 20, NoWindow),
    [TerraceRequest(5, 15, NoWindow) EXCEPT !.sectorId = SectorId] }

NextErrors ==
  \/ \E c \in Calls, r \in ErrorRequests : Book(c, r)
  \/ \E c \in Calls : AcquireInternal(c)
  \/ \E c \in Calls : AcquireKey(c)
  \/ \E c \in Calls : LockedSection(c)

SpecErrors == Init /\ [][NextErrors]_vars

\* ------------------------------------------- blackouts by the operator
\* POST /woki/blackouts: the table exists; the blackout is stored with the
\* start and the end of the body.  The route takes no lock and runs between
\* the steps of the bookings in flight.
MaxBlackouts == 1

\* bodies for the 4-6 table of the second sector: 20:15-20:30 and 20:10-21:00
\* local time, and 20:10-20:25 for one of the 2-4 tables
BlackoutBodies ==
  { [id |-> 31, tableId |-> 5, start |-> 1395, end |-> 1410],
    [id |-> 32, tableId |-> 5, start |-> 1390, end |-> 1440],
    [id |-> 33, tableId |-> 3, start |-> 1390, end |-> 1405] }

CreateBlackout(body) ==
  /\ Cardinality(blackouts) < MaxBlackouts
  /\ body \notin blackouts
  /\ blackouts' = blackouts \cup {body}
  /\ UNCHANGED << bookings, waitlist, idempotencyCache, nextId, internalLock,
                  locks, pc, req, cand, lockKey, prevInternal, previous, settled, result,
                  replay, cancels, acquireOrder, grantOrder, inFlightAtCall, feasible,
                  probe >>

NextBlackout ==
  \/ \E c \in Calls, r \in TerraceRequests : Book(c, r)
  \/ \E c \in Calls : AcquireInternal(c)
  \/ \E c \in Calls : AcquireKey(c)
  \/ \E c \in Calls : LockedSection(c)
  \/ \E body \in BlackoutBodies : CreateBlackout(body)

SpecBlackout == Init /\ [][NextBlackout]_vars

\* ------------------------------------------- direct calls of the engine
\* The engine functions are exported and are called directly (by the routes
\* and by the unit tests).  The calls below take their store contents and
\* arguments from bounded sets and record arguments and result in probe.
\* The functions keep no state between calls, so a behaviour records one call.

ProbeDate == 0

\* CONFIRMED bookings on the tables of the second sector; the second one
\* starts at 21:00 local time and overlaps the first
ProbeBookingPool ==
  { [id |-> 11, tableIds |-> <<3>>, start |-> 1425, end |-> 1455, status |-> "CONFIRMED"],
    [id |-> 12, tableIds |-> <<3>>, start |-> 1440, end |-> 1470, status |-> "CONFIRMED"],
    [id |-> 13, tableIds |-> <<4>>, start |-> 1425, end |-> 1440, status |-> "CONFIRMED"],
    [id |-> 14, tableIds |-> <<5>>, start |-> 1395, end |-> 1425, status |-> "CONFIRMED"] }

\* blackouts as POST /woki/blackouts stores them: any two parseable instants
ProbeBlackoutPool ==
  { [id |-> 21, tableId |-> 3, start |-> 1432, end |-> 1447],
    [id |-> 22, tableId |-> 4, start |-> 1440, end |-> 1440],
    [id |-> 23, tableId |-> 5, start |-> 1425, end |-> 1470] }

ProbeStores == { s \in SUBSET ProbeBookingPool : Cardinality(s) <= MaxProbeBookings }

ProbeBlackouts == { s \in SUBSET ProbeBlackoutPool : Cardinality(s) <= MaxProbeBlackouts }

\* service windows of a restaurant: 20:45-21:30, 20:10-21:00 and 20:10-20:40
ProbeServiceWindows ==
  { << [start |-> 1245, end |-> 1290] >>, << [start |-> 1210, end |-> 1260] >>,
    << [start |-> 1210, end |-> 1240] >> }

ProbeRequestedWindows == { NoWindow, [start |-> 1245, end |-> 1275] }

ProbeParties == {2, 4, 5, 7, 8}

ProbeDurations == {15, 30}

ProbeLimits == {1, 2, DefaultLimit}

ProbeFindCandidates ==
  /\ probe = NoProbe
  /\ \E bks \in ProbeStores, bls \in ProbeBlackouts, partySize \in ProbeParties,
        durationMinutes \in ProbeDurations, serviceWindows \in ProbeServiceWindows,
        window \in ProbeRequestedWindows, limit \in ProbeLimits :
       /\ probe' = [op |-> "findCandidates",
                    args |-> [bks |-> bks, bls |-> bls, partySize |-> partySize,
                              durationMinutes |-> durationMinutes,
                              serviceWindows |-> serviceWindows, window |-> window,
                              limit |-> limit],
                    out |-> findCandidates(bks, bls, TerraceId, ProbeDate, partySize,
                                           durationMinutes, serviceWindows, window, limit)]
       /\ UNCHANGED << bookings, waitlist, idempotencyCache, blackouts, nextId, internalLock,
                       locks, pc, req, cand, lockKey, prevInternal, previous, settled,
                       result, replay, cancels, acquireOrder, grantOrder, inFlightAtCall,
                       feasible >>

ProbeSelectBestCandidate ==
  /\ probe = NoProbe
  /\ \E bks \in ProbeStores, bls \in ProbeBlackouts, partySize \in ProbeParties,
        durationMinutes \in ProbeDurations, serviceWindows \in ProbeServiceWindows,
        window \in ProbeRequestedWindows :
       /\ probe' = [op |-> "selectBestCandidate",
                    args |-> [bks |-> bks, bls |-> bls, partySize |-> partySize,
                              durationMinutes |-> durationMinutes,
                              serviceWindows |-> serviceWindows, window |-> window,
                              limit |-> 1],
                    out |-> selectBestCandidate(bks, bls, TerraceId, ProbeDate, partySize,
                                                durationMinutes, serviceWindows, window)]
       /\ UNCHANGED << bookings, waitlist, idempotencyCache, blackouts, nextId, internalLock,
                       locks, pc, req, cand, lockKey, prevInternal, previous, settled,
                       result, replay, cancels, acquireOrder, grantOrder, inFlightAtCall,
                       feasible >>

ProbeTableIds == {3, 4, 5}

ProbeFindTableGaps ==
  /\ probe = NoProbe
  /\ \E bks \in ProbeStores, bls \in ProbeBlackouts, tableId \in ProbeTableIds,
        serviceWindows \in ProbeServiceWindows :
       /\ probe' = [op |-> "findTableGaps",
                    args |-> [bks |-> bks, bls |-> bls, tableId |-> tableId,
                              serviceWindows |-> serviceWindows],
                    out |-> findTableGaps(bks, bls, tableId, ProbeDate, serviceWindows)]
       /\ UNCHANGED << bookings, waitlist, idempotencyCache, blackouts, nextId, internalLock,
                       locks, pc, req, cand, lockKey, prevInternal, previous, settled,
                       result, replay, cancels, acquireOrder, grantOrder, inFlightAtCall,
                       feasible >>

\* the instants at which a gap can start or end
ProbeInstants == {1425, 1440, 1455, 1470, 1485}

\* sorted lists of at most MaxProbeGaps non-empty disjoint gaps (touching allowed)
RECURSIVE GapListsFrom(_, _)
GapListsFrom(from, n) ==
  IF n = 0 THEN { <<>> }
  ELSE { <<>> } \cup
       UNION { { << [start |-> a, end |-> b] >> \o rest : rest \in GapListsFrom(b, n - 1) } :
               <<a, b>> \in { x \in ProbeInstants \X ProbeInstants :
                               from <= x[1] /\ x[1] < x[2] } }

ProbeGapLists == GapListsFrom(0, MaxProbeGaps)

ProbeIntersectGaps ==
  /\ probe = NoProbe
  /\ \E gaps1 \in ProbeGapLists, gaps2 \in ProbeGapLists :
       /\ probe' = [op |-> "intersectGaps",
                    args |-> << gaps1, gaps2 >>,
                    out |-> intersectGaps(gaps1, gaps2)]
       /\ UNCHANGED << bookings, waitlist, idempotencyCache, blackouts, nextId, internalLock,
                       locks, pc, req, cand, lockKey, prevInternal, previous, settled,
                       result, replay, cancels, acquireOrder, grantOrder, inFlightAtCall,
                       feasible >>

\* the intersection loop of findComboGaps over the gap lists of three tables
ProbeIntersectAll ==
  /\ probe = NoProbe
  /\ \E gaps1 \in ProbeGapLists, gaps2 \in ProbeGapLists, gaps3 \in ProbeGapLists :
       /\ probe' = [op |-> "intersectAll",
                    args |-> << gaps1, gaps2, gaps3 >>,
                    out |-> ComboGapsOf(<< gaps1, gaps2, gaps3 >>)]
       /\ UNCHANGED << bookings, waitlist, idempotencyCache, blackouts, nextId, internalLock,
                       locks, pc, req, cand, lockKey, prevInternal, previous, settled,
                       result, replay, cancels, acquireOrder, grantOrder, inFlightAtCall,
                       feasible >>

\* the tables of both sectors, in every order of every subset
ProbeTableLists ==
  { seq \in UNION { [1..n -> Range(Tables) \cup Range(TerraceTables)] :
                    n \in 0..(Len(Tables) + Len(TerraceTables)) } :
      \A i \in 1..Len(seq) : \A j \in 1..Len(seq) : i # j => seq[i] # seq[j] }

ProbeCalculateComboCapacity ==
  /\ probe = NoProbe
  /\ \E tables \in ProbeTableLists :
       /\ probe' = [op |-> "calculateComboCapacity",
                    args |-> tables,
                    out |-> calculateComboCapacity(tables)]
       /\ UNCHANGED << bookings, waitlist, idempotencyCache, blackouts, nextId, internalLock,
                       locks, pc, req, cand, lockKey, prevInternal, previous, settled,
                       result, replay, cancels, acquireOrder, grantOrder, inFlightAtCall,
                       feasible >>

NextPure ==
  \/ ProbeFindCandidates
  \/ ProbeSelectBestCandidate
  \/ ProbeFindTableGaps
  \/ ProbeIntersectGaps
  \/ ProbeIntersectAll
  \/ ProbeCalculateComboCapacity

SpecPure == Init /\ [][NextPure]_vars

\* ------------------------------------ direct calls: venue without windows
\* the largest limit the discover route accepts
MaxLimit == 100

OpenDayStores == { s \in ProbeStores : Cardinality(s) <= 1 }

OpenDayParties == {2, 5}

OpenDayLimits == {1, MaxLimit}

\* findCandidates for a restaurant whose windows list is empty
ProbeOpenDay ==
  /\ probe = NoProbe
  /\ \E bks \in OpenDayStores, bls \in ProbeBlackouts, partySize \in OpenDayParties,
        window \in ProbeRequestedWindows, limit \in OpenDayLimits :
       /\ probe' = [op |-> "findCandidates",
                    args |-> [bks |-> bks, bls |-> bls, partySize |-> partySize,
                              durationMinutes |-> 30,
                              serviceWindows |-> <<>>, window |-> window,
                              limit |-> limit],
                    out |-> findCandidates(bks, bls, TerraceId, ProbeDate, partySize,
                                           30, <<>>, window, limit)]
       /\ UNCHANGED << bookings, waitlist, idempotencyCache, blackouts, nextId, internalLock,
                       locks, pc, req, cand, lockKey, prevInternal, previous, settled,
                       result, replay, cancels, acquireOrder, grantOrder, inFlightAtCall,
                       feasible >>

\* the blackouts of the pool that cover some time
NonEmptyBlackouts == { s \in ProbeBlackouts : \A x \in s : x.start < x.end }

\* a blackout with start == end, as POST /woki/blackouts stores it
EmptyBlackout(tableId, t) == [id |-> 24, tableId |-> tableId, start |-> t, end |-> t]

\* the instants of the empty blackout: the edges of the service windows and
\* instants inside them, on and off the grid
EmptyBlackoutInstants == {1390, 1425, 1432, 1440, 1470}

\* findTableGaps and findCandidates before and after an empty blackout is
\* added to a table
ProbeEmptyBlackout ==
  /\ probe = NoProbe
  /\ \E bks \in OpenDayStores, bls \in NonEmptyBlackouts, tableId \in ProbeTableIds,
        t \in EmptyBlackoutInstants, serviceWindows \in ProbeServiceWindows,
        partySize \in ProbeParties, durationMinutes \in ProbeDurations :
       /\ probe' = [op |-> "emptyBlackout",
                    args |-> [bks |-> bks, bls |-> bls, tableId |-> tableId, t |-> t,
                              serviceWindows |-> serviceWindows, partySize |-> partySize,
                              durationMinutes |-> durationMinutes],
                    out |-> [gapsBefore |->
                               findTableGaps(bks, bls, tableId, ProbeDate, serviceWindows),
                             gapsAfter |->
                               findTableGaps(bks, bls \cup {EmptyBlackout(tableId, t)},
                                             tableId, ProbeDate, serviceWindows),
                             candidatesBefore |->
                               findCandidates(bks, bls, TerraceId, ProbeDate, partySize,
                                              durationMinutes, serviceWindows, NoWindow,
                                              DefaultLimit),
                             candidatesAfter |->
                               findCandidates(bks, bls \cup {EmptyBlackout(tableId, t)},
                                              TerraceId, ProbeDate, partySize,
                                              durationMinutes, serviceWindows, NoWindow,
                                              DefaultLimit)]]
       /\ UNCHANGED << bookings, waitlist, idempotencyCache, blackouts, nextId, internalLock,
                       locks, pc, req, cand, lockKey, prevInternal, previous, settled,
                       result, replay, cancels, acquireOrder, grantOrder, inFlightAtCall,
                       feasible >>

\* ------------------------------------------ slots, on instants in seconds
\* Gap boundaries come from service windows and bookings, which are whole
\* minutes, and from blackouts, which POST /woki/blackouts stores with any
\* parseable instant.  The two functions below are roundToSlot and
\* filterGapsByDuration on instants counted in seconds; on whole minutes they
\* agree with the definitions above.
SecondsPerMinute == 60

roundToSlotSeconds(ts, slotMinutes, direction) ==
  LET minutes == (ts \div SecondsPerMinute) % 60
      remainder == minutes % slotMinutes
  IN IF remainder = 0 THEN ts
     ELSE IF direction = "up"
          THEN ((ts \div SecondsPerMinute) + (slotMinutes - remainder)) * SecondsPerMinute
          ELSE ((ts \div SecondsPerMinute) - remainder) * SecondsPerMinute

\* the while loop of filterGapsByDuration
RECURSIVE SlotsFromSeconds(_, _, _)
SlotsFromSeconds(currentStart, roundedEnd, durationMinutes) ==
  IF currentStart + durationMinutes * SecondsPerMinute <= roundedEnd
  THEN << [start |-> currentStart,
           end |-> currentStart + durationMinutes * SecondsPerMinute] >>
       \o SlotsFromSeconds(currentStart + SlotMinutes * SecondsPerMinute, roundedEnd,
                           durationMinutes)
  ELSE <<>>

filterGapsByDurationSeconds(gaps, durationMinutes) ==
  LET OneGap(gap) ==
        LET roundedStart == roundToSlotSeconds(gap.start, SlotMinutes, "up")
            roundedEnd == roundToSlotSeconds(gap.end, SlotMinutes, "down")
        IN IF roundedEnd - roundedStart >= durationMinutes * SecondsPerMinute
           THEN SlotsFromSeconds(roundedStart, roundedEnd, durationMinutes)
           ELSE <<>>
  IN FlattenSeq([i \in 1..Len(gaps) |-> OneGap(gaps[i])])

\* gap boundaries between 20:15 and 21:15, in seconds: on the grid, off the
\* grid by whole minutes and off it by half a minute
SlotInstants ==
  { m * SecondsPerMinute + sec : m \in {1215, 1217, 1230, 1245, 1252, 1260, 1275},
                                 sec \in {0, 30} }

SlotDurations == {15, 30, 45}

ProbeFilterGapsByDuration ==
  /\ probe = NoProbe
  /\ \E start \in SlotInstants, end \in SlotInstants, durationMinutes \in SlotDurations :
       /\ start < end
       /\ probe' = [op |-> "filterGapsByDuration",
                    args |-> [gap |-> [start |-> start, end |-> end],
                              durationMinutes |-> durationMinutes],
                    out |-> filterGapsByDurationSeconds(<< [start |-> start, end |-> end] >>,
                                                        durationMinutes)]
       /\ UNCHANGED << bookings, waitlist, idempotencyCache, blackouts, nextId, internalLock,
                       locks, pc, req, cand, lockKey, prevInternal, previous, settled,
                       result, replay, cancels, acquireOrder, grantOrder, inFlightAtCall,
                       feasible >>

\* ------------------------------------------- combinations of table ids
ComboIdPool == {3, 4, 5, 6, 7}

\* lists of distinct table ids, in any order
ComboIdLists ==
  UNION { { l \in [1..n -> ComboIdPool] : \A i, j \in 1..n : i # j => l[i] # l[j] }
          : n \in 0..MaxComboTables }

ProbeGenerateCombinations ==
  /\ probe = NoProbe
  /\ \E arr \in ComboIdLists :
       /\ probe' = [op |-> "generateCombinations", args |-> arr,
                    out |-> generateCombinations(arr, 2)]
       /\ UNCHANGED << bookings, waitlist, idempotencyCache, blackouts, nextId, internalLock,
                       locks, pc, req, cand, lockKey, prevInternal, previous, settled,
                       result, replay, cancels, acquireOrder, grantOrder, inFlightAtCall,
                       feasible >>

\* ------------------------------------------------------ display score
\* Date.UTC of the date the engine is called with (2025-10-22), in seconds
ProbeDateEpochSeconds == 1761091200

ComboBaseScore == 1000

WasteScorePerSeat == 10

TimeScoreModulus == 10000

\* candidate.score as the forEach of findCandidates computes it
scoreOf(candidate, partySize) ==
  LET waste == candidate.maxCapacity - partySize
      startTimeSeconds == ProbeDateEpochSeconds + candidate.start * SecondsPerMinute
      baseScore == IF candidate.kind = "single" THEN 0 ELSE ComboBaseScore
      wasteScore == waste * WasteScorePerSeat
      timeScore == startTimeSeconds % TimeScoreModulus
  IN baseScore + wasteScore + timeScore

\* the candidates of a discover call with the scores the route shows
Scored(candidates, partySize) ==
  [i \in 1..Len(candidates) |->
     [kind |-> candidates[i].kind, tableIds |-> candidates[i].tableIds,
      start |-> candidates[i].start, score |-> scoreOf(candidates[i], partySize)]]

ProbeScore ==
  /\ probe = NoProbe
  /\ \E bks \in ProbeStores, partySize \in ProbeParties,
        durationMinutes \in ProbeDurations, serviceWindows \in ProbeServiceWindows :
       /\ probe' = [op |-> "score",
                    args |-> [bks |-> bks, partySize |-> partySize,
                              durationMinutes |-> durationMinutes,
                              serviceWindows |-> serviceWindows],
                    out |-> Scored(findCandidates(bks, {}, TerraceId, ProbeDate, partySize,
                                                  durationMinutes, serviceWindows, NoWindow,
                                                  DefaultLimit),
                                   partySize)]
       /\ UNCHANGED << bookings, waitlist, idempotencyCache, blackouts, nextId, internalLock,
                       locks, pc, req, cand, lockKey, prevInternal, previous, settled,
                       result, replay, cancels, acquireOrder, grantOrder, inFlightAtCall,
                       feasible >>

\* bookings as the store holds them on the tables of the second sector: at
\* 20:15, 20:45, 21:00 and 23:45 of the date in local time, at 22:00 of the
\* day before, one awaiting approval and one rejected
StoreQueryPool ==
  { [id |-> 41, tableIds |-> <<5>>, start |-> 1395, end |-> 1425, status |-> "CONFIRMED"],
    [id |-> 42, tableIds |-> <<3>>, start |-> 1425, end |-> 1455, status |-> "CONFIRMED"],
    [id |-> 43, tableIds |-> <<3, 4>>, start |-> 1440, end |-> 1470, status |-> "CONFIRMED"],
    [id |-> 44, tableIds |-> <<5>>, start |-> 1605, end |-> 1620, status |-> "CONFIRMED"],
    [id |-> 45, tableIds |-> <<5>>, start |-> 60, end |-> 90, status |-> "CONFIRMED"],
    [id |-> 46, tableIds |-> <<5>>, start |-> 1395, end |-> 1425, status |-> "PENDING"],
    [id |-> 47, tableIds |-> <<3>>, start |-> 1395, end |-> 1425, status |-> "CANCELLED"] }

StoreQueryStores == { s \in SUBSET StoreQueryPool : Cardinality(s) <= MaxProbeBookings }

StoreQueryTables == { <<3>>, <<5>>, <<4, 5>> }

ProbeGetBookingsByTablesAndDate ==
  /\ probe = NoProbe
  /\ \E bks \in StoreQueryStores, tableIds \in StoreQueryTables :
       /\ probe' = [op |-> "getBookingsByTablesAndDate",
                    args |-> [bks |-> bks, tableIds |-> tableIds, date |-> ProbeDate],
                    out |-> getBookingsByTablesAndDate(bks, tableIds, ProbeDate)]
       /\ UNCHANGED << bookings, waitlist, idempotencyCache, blackouts, nextId, internalLock,
                       locks, pc, req, cand, lockKey, prevInternal, previous, settled,
                       result, replay, cancels, acquireOrder, grantOrder, inFlightAtCall,
                       feasible >>

NextEngine ==
  \/ ProbeGetBookingsByTablesAndDate
  \/ ProbeScore
  \/ ProbeGenerateCombinations
  \/ ProbeFilterGapsByDuration
  \/ ProbeEmptyBlackout
  \/ ProbeOpenDay

SpecEngine == Init /\ [][NextEngine]_vars

\* ------------------------------------------------------------- properties
Overlaps(a, b) == a.start < b.end /\ b.start < a.end
SharesTable(a, b) == Range(a.tableIds) \cap Range(b.tableIds) # {}
Done(c) == pc[c] = "done"
\* invocation d was made after invocation c had finished
After(c, d) == c < d /\ c \notin inFlightAtCall[d]
\* invocation d was made while invocation c was unfinished
Concurrent(c, d) == c < d /\ c \in inFlightAtCall[d]
BookingOf(c) == CHOOSE b \in bookings : b.id = result[c].bookingId
\* invocation c ended with a booking that holds the tables of its slot
HoldsSlot(c) ==
  /\ result[c].kind = "ok"
  /\ \E b \in bookings : /\ b.id = result[c].bookingId
                         /\ b.status \in {"CONFIRMED", "PENDING"}
                         /\ b.tableIds # <<>>
\* invocation c ended queued on the waitlist, with its placeholder booking
Queued(c) ==
  /\ result[c].kind = "ok"
  /\ \E e \in waitlist : e.id = result[c].bookingId
\* the HTTP invocations made with the arguments of invocation c
SameRequest(c) == {d \in Calls : pc[d] # "idle" /\ req[d] = req[c]}

\* C1: no table is referenced by two CONFIRMED bookings whose half-open
\* intervals [start, end) overlap; bookings that only touch are allowed
C1_NoOverlappingConfirmed ==
  \A a, b \in bookings :
    (/\ a # b
     /\ a.status = "CONFIRMED" /\ b.status = "CONFIRMED"
     /\ SharesTable(a, b))
    => ~Overlaps(a, b)

\* C2: when the calls made for one request ran concurrently, each with exactly
\* one feasible slot to choose, and all have ended, exactly one of them holds
\* a booking on that slot's tables and each of the others failed with
\* no_capacity or was queued on the waitlist
C2_ExactlyOneHoldsTheSlot ==
  \A c \in Calls :
    LET G == SameRequest(c)
    IN (/\ pc[c] # "idle" /\ req[c].origin = "http"
        /\ Cardinality(G) >= 2
        /\ \A d \in G : Done(d) /\ feasible[d] = 1
        /\ \A d, e \in G : d < e => Concurrent(d, e))
       => /\ Cardinality({d \in G : HoldsSlot(d)}) = 1
          /\ \A d \in G : \/ HoldsSlot(d)
                          \/ result[d] = Thrown("no_capacity")
                          \/ Queued(d)

\* C3: two calls made one after the other with the same idempotency key and
\* the same payload return a Booking with the same id, and the store holds
\* exactly one Booking record created by them
C3_SameKeySameBooking ==
  \A c, d \in Calls :
    (/\ Done(c) /\ Done(d) /\ After(c, d)
     /\ req[c] = req[d] /\ req[c].key # None
     /\ result[c].kind = "ok" /\ result[d].kind = "ok")
    => /\ result[c].bookingId = result[d].bookingId
       /\ Cardinality({b \in bookings :
             b.id \in {result[c].bookingId, result[d].bookingId}}) = 1

\* the position of invocation c in a history of invocations
RECURSIVE IndexIn(_, _)
IndexIn(order, c) == IF Head(order) = c THEN 1 ELSE 1 + IndexIn(Tail(order), c)
Requested(c) == c \in Range(acquireOrder)
Granted(c) == c \in Range(grantOrder)
\* invocations c and d both called acquire with one key, c first
RequestedBefore(c, d) ==
  /\ Requested(c) /\ Requested(d)
  /\ lockKey[c] = lockKey[d]
  /\ IndexIn(acquireOrder, c) < IndexIn(acquireOrder, d)
\* invocation c created the booking it returned inside the locked section:
\* no invocation granted the lock before it returned the same booking
Committed(c) ==
  /\ HoldsSlot(c) /\ Granted(c)
  /\ \A e \in Calls :
       (e # c /\ Granted(e) /\ result[e] = result[c])
       => IndexIn(grantOrder, c) < IndexIn(grantOrder, e)

\* C4: at most one caller holds the lock of a key at any time, and acquire
\* returns to a caller only after every caller that acquired the same key
\* before it has called its release function
C4_AtMostOneHolderPerKey ==
  /\ \A c, d \in Calls :
       (c # d /\ pc[c] = "locked" /\ pc[d] = "locked") => lockKey[c] # lockKey[d]
  /\ \A c, d \in Calls :
       (RequestedBefore(c, d) /\ Granted(d)) => settled[c].p

\* a caller holds a key while another caller is queued for the same key
C4_Witness ==
  \E c, d \in Calls :
    /\ pc[c] = "locked" /\ pc[d] = "awaitKey"
    /\ lockKey[c] = lockKey[d]
    /\ previous[d] = Chain(c)

\* C5: callers of one key are granted the lock in the order in which they
\* called acquire, and of two contenders for a key the later one never
\* commits the slot that the earlier one was refused
C5_FifoPerKey ==
  /\ \A c, d \in Calls :
       (RequestedBefore(c, d) /\ Granted(d))
       => /\ Granted(c)
          /\ IndexIn(grantOrder, c) < IndexIn(grantOrder, d)
  /\ \A c, d \in Calls :
       (/\ RequestedBefore(c, d) /\ Done(c) /\ Done(d) /\ cancels = 0
        /\ result[c] = Thrown("no_capacity"))
       => ~Committed(d)

\* three contenders for one key have all been granted it, and the first
\* requester committed the slot
C5_Witness ==
  \E c, d, e \in Calls :
    /\ RequestedBefore(c, d) /\ RequestedBefore(d, e)
    /\ d \in inFlightAtCall[e] /\ c \in inFlightAtCall[d]
    /\ Granted(e)
    /\ Committed(c)

\* C6: every call that acquired the lock has released it, and the internal
\* lock, when it has returned or thrown, on each exit path of the locked
\* section
C6_ReleasedOnEveryExit ==
  \A c \in Calls :
    (Done(c) /\ Granted(c)) => (settled[c].p /\ settled[c].willLock)

\* three calls have left the locked section, one by committing, one by an
\* idempotent hit inside the lock and one by the conflict error
C6_Witness ==
  \E c, d, e \in Calls :
    /\ Done(c) /\ Done(d) /\ Done(e)
    /\ Granted(c) /\ Granted(d) /\ Granted(e)
    /\ Committed(c) /\ req[c].key # None
    /\ d # c /\ req[d].key = req[c].key /\ result[d] = result[c]
    /\ result[e] = Thrown("no_capacity")
    /\ settled[c].p /\ settled[d].p /\ settled[e].p

\* C7: a caller requesting a key that nobody holds or waits for is never
\* kept waiting behind a caller that is queued for a different key which a
\* third caller holds
C7_KeysDoNotInterfere ==
  ~ \E c, x, h \in Calls :
      /\ pc[c] = "awaitInternal"
      /\ \A d \in Calls : (d # c /\ lockKey[d] = lockKey[c]) => Done(d)
      /\ prevInternal[c] = WillLock(x)
      /\ ~IsResolved(prevInternal[c])
      /\ pc[x] = "awaitKey"
      /\ lockKey[x] # lockKey[c]
      /\ pc[h] = "locked"
      /\ lockKey[h] = lockKey[x]

\* C8: under fair scheduling every call that requests a lock is eventually
\* granted it, completes its locked section and has released the lock and
\* the internal lock
C8_EveryRequesterFinishes ==
  \A c \in Calls :
    (pc[c] = "awaitInternal")
      ~> (Done(c) /\ Granted(c) /\ settled[c].p /\ settled[c].willLock)

\* a call that had to wait for the internal lock and for its key has finished
\* and released
C8_Witness ==
  \E c \in Calls :
    /\ Done(c) /\ Granted(c) /\ settled[c].p
    /\ prevInternal[c] # ResolvedPromise
    /\ previous[c] # ResolvedPromise

\* a call is made, outside the DELETE handler's own step, with valid
\* arguments for the venue and sector, no stored idempotency key and no
\* candidate on the current store
NoCandidateCall(c) ==
  /\ pc[c] = "idle" /\ pc'[c] # "idle"
  /\ cancels' = cancels
  /\ req'[c].partySize > 0 /\ req'[c].durationMinutes > 0
  /\ req'[c].durationMinutes % SlotMinutes = 0
  /\ req'[c].restaurantId = RestaurantId /\ req'[c].sectorId = SectorId
  /\ ~(req'[c].key # None /\ req'[c].key \in DOMAIN idempotencyCache)
  /\ ~assertWindowWithinService(req'[c].date, req'[c].window, ServiceWindows)
  /\ selectBestCandidate(bookings, blackouts, req'[c].sectorId, req'[c].date,
                         req'[c].partySize, req'[c].durationMinutes, ServiceWindows,
                         req'[c].window) = NoCandidate

\* the call returned a new PENDING booking without tables and queued one new
\* entry carrying the request's parameters
QueuedWithPlaceholder(c) ==
  /\ pc'[c] = "done"
  /\ result'[c].kind = "ok"
  /\ \E e \in waitlist' \ waitlist :
       /\ waitlist' = waitlist \cup {e}
       /\ e.restaurantId = req'[c].restaurantId /\ e.sectorId = req'[c].sectorId
       /\ e.partySize = req'[c].partySize
       /\ e.durationMinutes = req'[c].durationMinutes
       /\ e.date = req'[c].date /\ e.window = req'[c].window
  /\ \E b \in bookings' \ bookings :
       /\ bookings' = bookings \cup {b}
       /\ b.status = "PENDING" /\ b.tableIds = <<>>
       /\ b.id = result'[c].bookingId

C10_ReplayPromotesExactlyOne ==
  (replay.phase = "finished" /\ replay.seatableAtStart /\ replay.quiet)
  => /\ Len(replay.promoted) = 1
     /\ HoldsSlot(replay.call)
     /\ QueuedFor(waitlist, replay.sectorId, replay.date) = replay.queuedAtStart - 1

\* C11: one run of the replay removes at most one of the entries that were
\* queued when it started and promotes at most one entry; at most one of its
\* createBooking calls returns a booking, and when no other request is made
\* meanwhile the store gains at most one booking
C11_AtMostOnePromotion ==
  /\ Len(replay.promoted) <= 1
  /\ Cardinality(replay.waitlistAtStart \ {e.id : e \in waitlist}) <= 1
  /\ Cardinality({c \in replay.calls : result[c].kind = "ok"}) <= 1
  /\ (replay.phase # "idle" /\ replay.quiet)
     => Cardinality({b.id : b \in bookings} \ replay.bookingsAtStart) <= 1

\* a finished replay seated the oldest of two entries that both could be
\* seated and left the other one queued
C11_Witness ==
  /\ replay.phase = "finished" /\ replay.quiet /\ replay.seatableAtStart
  /\ Len(replay.promoted) = 1 /\ HoldsSlot(replay.call)
  /\ Len(replay.rest) = 1
  /\ replay.rest[1] \in waitlist
  /\ replay.rest[1].durationMinutes = replay.promoted[1].durationMinutes

\* ---- C13
\* the order of the claim, written on the candidates' own fields: single
\* before combo, then earlier start, then smaller waste, then the table ids
\* compared position by position (a proper prefix first)
C13_KindRank(c) == IF c.kind = "single" THEN 0 ELSE 1

C13_Waste(c, partySize) == c.maxCapacity - partySize

C13_IdsBefore(x, y) ==
  \/ Len(x) < Len(y) /\ \A i \in 1..Len(x) : x[i] = y[i]
  \/ \E k \in 1..Len(x) :
       /\ k <= Len(y)
       /\ x[k] < y[k]
       /\ \A i \in 1..(k - 1) : x[i] = y[i]

C13_Before(a, b, partySize) ==
  \/ C13_KindRank(a) < C13_KindRank(b)
  \/ /\ C13_KindRank(a) = C13_KindRank(b)
     /\ \/ a.start < b.start
        \/ /\ a.start = b.start
           /\ \/ C13_Waste(a, partySize) < C13_Waste(b, partySize)
              \/ /\ C13_Waste(a, partySize) = C13_Waste(b, partySize)
                 /\ C13_IdsBefore(a.tableIds, b.tableIds)

\* every feasible candidate of a recorded call: the same call without a limit
C13_All(a) ==
  findCandidates(a.bks, a.bls, TerraceId, ProbeDate, a.partySize, a.durationMinutes,
                 a.serviceWindows, a.window, 1000)

C13_Ordered(all, partySize) ==
  \A i \in 1..Len(all) : \A j \in 1..Len(all) :
    i < j => C13_Before(all[i], all[j], partySize)

C13_Prefix(all, limit) ==
  [i \in 1..(IF Len(all) < limit THEN Len(all) ELSE limit) |-> all[i]]

C13_Minimum(out, all, partySize) ==
  IF all = <<>> THEN out = NoCandidate
  ELSE /\ out \in Range(all)
       /\ \A c \in Range(all) : c = out \/ C13_Before(out, c, partySize)
       /\ (\E c \in Range(all) : c.kind = "single") => out.kind = "single"

\* C13: findCandidates returns the first `limit` elements of all feasible
\* candidates sorted by (single before combo, earliest start, smallest waste,
\* lexicographic table ids); selectBestCandidate returns the minimum of that
\* order, and a single-table candidate whenever one exists.
C13_SortedPrefixAndMinimum ==
  /\ probe.op = "findCandidates" =>
       /\ C13_Ordered(C13_All(probe.args), probe.args.partySize)
       /\ probe.out = C13_Prefix(C13_All(probe.args), probe.args.limit)
  /\ probe.op = "selectBestCandidate" =>
       C13_Minimum(probe.out, C13_All(probe.args), probe.args.partySize)

\* a single table is chosen although a combination is free earlier
C13_Witness ==
  /\ probe.op = "selectBestCandidate"
  /\ probe.out.kind = "single"
  /\ \E c \in Range(C13_All(probe.args)) :
       c.kind = "combo" /\ c.start < probe.out.start

\* ---- C14
\* the instants of the service day around the probed service windows
C14_Instants == 1380..1480

C14_InWindows(t, serviceWindows) ==
  \E i \in 1..Len(serviceWindows) :
    /\ toZonedIso(ProbeDate, serviceWindows[i].start) <= t
    /\ t < toZonedIso(ProbeDate, serviceWindows[i].end)

C14_Booked(t, bks, tableId) ==
  \E b \in bks :
    /\ b.status = "CONFIRMED"
    /\ \E i \in 1..Len(b.tableIds) : b.tableIds[i] = tableId
    /\ b.start <= t /\ t < b.end

C14_BlackedOut(t, bls, tableId) ==
  \E x \in bls : x.tableId = tableId /\ x.start <= t /\ t < x.end

C14_Free(t, a) ==
  /\ C14_InWindows(t, a.serviceWindows)
  /\ ~C14_Booked(t, a.bks, a.tableId)
  /\ ~C14_BlackedOut(t, a.bls, a.tableId)

C14_Covered(t, gaps) ==
  \E i \in 1..Len(gaps) : gaps[i].start <= t /\ t < gaps[i].end

C14_SortedDisjoint(gaps) ==
  \A i \in 1..Len(gaps) : \A j \in 1..Len(gaps) :
    i < j => gaps[i].end <= gaps[j].start

C14_Inside(gaps, serviceWindows) ==
  \A i \in 1..Len(gaps) :
    \E w \in 1..Len(serviceWindows) :
      /\ toZonedIso(ProbeDate, serviceWindows[w].start) <= gaps[i].start
      /\ gaps[i].end <= toZonedIso(ProbeDate, serviceWindows[w].end)

\* C14: for every table, set of CONFIRMED bookings (overlapping ones
\* included) and set of blackouts, the gaps of findTableGaps are pairwise
\* disjoint, sorted by start, inside the service windows, and cover exactly
\* the instants of the service windows at which the table has no CONFIRMED
\* booking and no blackout.
C14_GapsAreExactlyFreeTime ==
  probe.op = "findTableGaps" =>
    /\ C14_SortedDisjoint(probe.out)
    /\ C14_Inside(probe.out, probe.args.serviceWindows)
    /\ \A t \in C14_Instants : C14_Covered(t, probe.out) <=> C14_Free(t, probe.args)

\* ---- C15
\* every fifth minute around the probed gap boundaries
C15_Instants == { t \in 1420..1490 : t % 5 = 0 }

C15_In(t, gaps) == \E i \in 1..Len(gaps) : gaps[i].start <= t /\ t < gaps[i].end

C15_InAll(t, lists) == \A k \in 1..Len(lists) : C15_In(t, lists[k])

C15_SortedDisjointNonEmpty(gaps) ==
  /\ \A i \in 1..Len(gaps) : gaps[i].start < gaps[i].end
  /\ \A i \in 1..Len(gaps) : \A j \in 1..Len(gaps) :
       i < j => gaps[i].end <= gaps[j].start

\* C15: intersectGaps of two sorted lists of disjoint gaps is exactly the set
\* of instants lying in a gap of both lists, as sorted disjoint non-empty
\* gaps, also when gaps of the two lists end at the same instant; applied
\* iteratively over N lists it is exactly the instants free in all N lists.
C15_IntersectionIsExact ==
  probe.op \in {"intersectGaps", "intersectAll"} =>
    /\ C15_SortedDisjointNonEmpty(probe.out)
    /\ \A t \in C15_Instants : C15_In(t, probe.out) <=> C15_InAll(t, probe.args)

\* two gaps end at the same instant and both lists go on overlapping after it
C15_Witness ==
  /\ probe.op = "intersectGaps"
  /\ Len(probe.args[1]) = 2 /\ Len(probe.args[2]) = 2
  /\ probe.args[1][1].end = probe.args[2][1].end
  /\ Len(probe.out) = 2

\* ---- C16
\* c starts and ends a whole number of slots after the start of a service
\* window that contains it
C16_OnGridOf(c, serviceWindows) ==
  \E i \in 1..Len(serviceWindows) :
    LET windowStart == toZonedIso(ProbeDate, serviceWindows[i].start)
    IN /\ windowStart <= c.start
       /\ c.end <= toZonedIso(ProbeDate, serviceWindows[i].end)
       /\ (c.start - windowStart) % SlotMinutes = 0
       /\ (c.end - windowStart) % SlotMinutes = 0

\* C16: every candidate of findCandidates starts and ends an exact multiple
\* of 15 minutes after the start of the venue's service window and lasts
\* exactly the requested duration, for any service-window start and any gap
\* boundaries left by bookings and blackouts.
C16_CandidatesOnWindowGrid ==
  probe.op = "findCandidates" =>
    \A i \in 1..Len(probe.out) :
      /\ probe.out[i].end - probe.out[i].start = probe.args.durationMinutes
      /\ C16_OnGridOf(probe.out[i], probe.args.serviceWindows)

\* ---- C17
C17_Instants == 1380..1480

\* the instants of the restaurant's service windows at which the table has
\* no CONFIRMED booking and no blackout
C17_FreeInstants(table, r) ==
  { t \in C17_Instants :
      /\ \E i \in 1..Len(restaurantWindows(r.restaurantId)) :
           /\ toZonedIso(r.date, restaurantWindows(r.restaurantId)[i].start) <= t
           /\ t < toZonedIso(r.date, restaurantWindows(r.restaurantId)[i].end)
      /\ ~\E b \in bookings :
           /\ b.status = "CONFIRMED"
           /\ table.id \in Range(b.tableIds)
           /\ b.start <= t /\ t < b.end
      /\ ~\E x \in blackouts : x.tableId = table.id /\ x.start <= t /\ t < x.end }

\* the free time of the table is one gap, of exactly the requested duration
C17_ExactGap(table, r) ==
  /\ r.partySize >= table.minSize /\ r.partySize <= table.maxSize
  /\ Cardinality(C17_FreeInstants(table, r)) = r.durationMinutes
  /\ \A t \in C17_FreeInstants(table, r) : \A u \in C17_FreeInstants(table, r) :
       u - t < r.durationMinutes

C17_GapStart(table, r) ==
  CHOOSE t \in C17_FreeInstants(table, r) : \A u \in C17_FreeInstants(table, r) : t <= u

\* a request made for exactly the remaining gap of a table goes on to book it
C17_ExactFillIsSelected(c) ==
  (/\ pc[c] = "idle" /\ pc'[c] # "idle"
   /\ ~HasRequestedWindow(req'[c].window)
   /\ \E table \in Range(getTablesBySector(req'[c].sectorId)) : C17_ExactGap(table, req'[c]))
  => /\ pc'[c] = "awaitInternal"
     /\ \E table \in Range(getTablesBySector(req'[c].sectorId)) :
          /\ C17_ExactGap(table, req'[c])
          /\ cand'[c].tableIds = << table.id >>
          /\ cand'[c].start = C17_GapStart(table, req'[c])
          /\ cand'[c].end = cand'[c].start + req'[c].durationMinutes

\* inside the lock, a candidate that overlaps no CONFIRMED booking of its
\* tables (bookings that only touch it included) is committed as CONFIRMED
C17_TouchingIsNoConflict(c) ==
  (/\ pc[c] = "locked" /\ pc'[c] = "done"
   /\ req[c].key = None
   /\ req[c].partySize < DefaultLargeGroupThreshold
   /\ ~\E b \in bookings :
        /\ b.status = "CONFIRMED"
        /\ SharesTable(b, cand[c])
        /\ Overlaps(b, cand[c]))
  => /\ result'[c].kind = "ok"
     /\ \E b \in bookings' \ bookings :
          /\ b.id = result'[c].bookingId
          /\ b.status = "CONFIRMED"
          /\ b.tableIds = cand[c].tableIds
          /\ b.start = cand[c].start /\ b.end = cand[c].end

\* C17: a booking that starts exactly at the end of a CONFIRMED booking of
\* the same table is not treated as a conflict, and a request whose duration
\* equals the remaining free gap of a table succeeds with a CONFIRMED booking
\* occupying that whole gap.
C17_TouchingAndExactFill ==
  [][\A c \in Calls : C17_ExactFillIsSelected(c) /\ C17_TouchingIsNoConflict(c)]_vars

\* ---- C18
\* sums over the set of tables, whatever the order they were passed in
RECURSIVE C18_SumMin(_)
C18_SumMin(S) ==
  IF S = {} THEN 0
  ELSE LET t == CHOOSE x \in S : TRUE IN t.minSize + C18_SumMin(S \ {t})

RECURSIVE C18_SumMax(_)
C18_SumMax(S) ==
  IF S = {} THEN 0
  ELSE LET t == CHOOSE x \in S : TRUE IN t.maxSize + C18_SumMax(S \ {t})

C18_TwoTwoToFours(tables) ==
  /\ Len(tables) = 2
  /\ \A i \in 1..2 : tables[i].minSize = 2 /\ tables[i].maxSize = 4

\* C18: the capacity range of a combination is (sum of minSize, sum of
\* maxSize) over its tables, whatever their order; for two tables (2,4) and
\* (2,4) it is exactly (4,8).
C18_ComboCapacityIsSum ==
  probe.op = "calculateComboCapacity" =>
    /\ probe.out.minCapacity = C18_SumMin(Range(probe.args))
    /\ probe.out.maxCapacity = C18_SumMax(Range(probe.args))
    /\ C18_TwoTwoToFours(probe.args) =>
         probe.out = [minCapacity |-> 4, maxCapacity |-> 8]

C18_Witness ==
  /\ probe.op = "calculateComboCapacity"
  /\ C18_TwoTwoToFours(probe.args)
  /\ probe.args[1].id > probe.args[2].id
  /\ probe.out = [minCapacity |-> 4, maxCapacity |-> 8]

\* ---- C19
\* C19: a booking committed with assigned tables is PENDING if and only if
\* its party size is at least the large-group threshold (10 by default), and
\* CONFIRMED otherwise.
C19_PendingIffLargeGroup ==
  \A b \in bookings :
    b.tableIds # <<>> =>
      b.status = (IF b.partySize >= 10 THEN "PENDING" ELSE "CONFIRMED")

\* a group of exactly 10 and a party of 2 both hold tables
C19_Witness ==
  /\ \E c \in Calls : HoldsSlot(c) /\ BookingOf(c).partySize = 10
                     /\ BookingOf(c).status = "PENDING"
  /\ \E c \in Calls : HoldsSlot(c) /\ BookingOf(c).partySize = 2
                     /\ BookingOf(c).status = "CONFIRMED"

\* ---- C20
\* the requested window lies inside one of the restaurant's service windows
C20_WithinService(r) ==
  \E i \in 1..Len(restaurantWindows(r.restaurantId)) :
    /\ restaurantWindows(r.restaurantId)[i].start <= r.window.start
    /\ r.window.end <= restaurantWindows(r.restaurantId)[i].end

C20_Rejected(c) ==
  /\ pc'[c] = "done"
  /\ result'[c] = Thrown("outside_service_window")
  /\ bookings' = bookings
  /\ waitlist' = waitlist

\* C20: a booking request whose requested window does not fall within the
\* configured service windows fails with outside_service_window and creates
\* no booking and no waitlist entry.
C20_OutsideWindowIsRejected ==
  [][\A c \in Calls :
       (/\ pc[c] = "idle" /\ pc'[c] # "idle"
        /\ HasRequestedWindow(req'[c].window)
        /\ restaurantWindows(req'[c].restaurantId) # <<>>
        /\ ~C20_WithinService(req'[c]))
       => C20_Rejected(c)]_vars

\* ---- C21
\* the starts of the intervals of the requested duration that lie on the
\* 15-minute grid of a service window, inside it and inside the requested
\* window when one is given
C21_Starts(a) ==
  { t \in C14_Instants :
      /\ \E i \in 1..Len(a.serviceWindows) :
           /\ toZonedIso(ProbeDate, a.serviceWindows[i].start) <= t
           /\ t + a.durationMinutes <= toZonedIso(ProbeDate, a.serviceWindows[i].end)
           /\ (t - toZonedIso(ProbeDate, a.serviceWindows[i].start)) % 15 = 0
      /\ HasRequestedWindow(a.window) =>
           /\ toZonedIso(ProbeDate, a.window.start) <= t
           /\ t + a.durationMinutes <= toZonedIso(ProbeDate, a.window.end) }

\* every table of the set is free (no CONFIRMED booking, no blackout) during
\* the whole interval that starts at t
C21_AllFree(tables, t, a) ==
  \A table \in tables : \A u \in t..(t + a.durationMinutes - 1) :
    /\ ~C14_Booked(u, a.bks, table.id)
    /\ ~C14_BlackedOut(u, a.bls, table.id)

C21_Seats(tables, a) ==
  /\ C18_SumMin(tables) <= a.partySize /\ a.partySize <= C18_SumMax(tables)
  /\ \E t \in C21_Starts(a) : C21_AllFree(tables, t, a)

C21_Ids(tables) == { table.id : table \in tables }

C21_Offered(tables, out) ==
  \E i \in 1..Len(out) :
    /\ out[i].kind = "combo"
    /\ Range(out[i].tableIds) = C21_Ids(tables)
    /\ out[i].minCapacity = C18_SumMin(tables)
    /\ out[i].maxCapacity = C18_SumMax(tables)

\* C21: when no single table can seat the party in the requested window but
\* a combination of two or more tables whose summed capacity range contains
\* the party size is free together for a grid-aligned interval of the
\* requested duration inside the window, findCandidates returns a combo
\* candidate on that combination with that capacity range.  Only the calls
\* whose list was not cut at `limit` are considered.
C21_FreeComboIsOffered ==
  (/\ probe.op = "findCandidates"
   /\ Len(probe.out) < probe.args.limit
   /\ \A table \in Range(TerraceTables) : ~C21_Seats({table}, probe.args))
  => \A tables \in SUBSET Range(TerraceTables) :
       (Cardinality(tables) >= 2 /\ C21_Seats(tables, probe.args))
       => C21_Offered(tables, probe.out)

\* ---- C22
\* invocation c was answered from the idempotency cache before selecting a
\* candidate: it never asked for a lock and returned a booking that another
\* invocation committed
C22_EarlyHit(c) ==
  /\ result[c].kind = "ok"
  /\ c \notin Range(acquireOrder)
  /\ \E e \in Range(grantOrder) : e # c /\ result[e].bookingId = result[c].bookingId

\* C22: two concurrent calls with the same idempotency key that both miss
\* the early lookup create at most one Booking and return the same Booking
\* id, whichever candidates they selected and whatever happened to the store
\* between their selections.
C22_ConcurrentSameKeyOneBooking ==
  \A c, d \in Calls :
    (/\ Done(c) /\ Done(d) /\ Concurrent(c, d)
     /\ req[c].key # None /\ req[d].key = req[c].key
     /\ ~C22_EarlyHit(c) /\ ~C22_EarlyHit(d)
     /\ result[c].kind = "ok" /\ result[d].kind = "ok")
    => result[c].bookingId = result[d].bookingId

\* ---- C23
C23_InLockedSection(c) == pc[c] = "locked"

C23_Conflict(a, b) == SharesTable(a, b) /\ Overlaps(a, b)

\* the two selected candidates are on the same venue, sector, table set and start
C23_SameSlot(c, d) ==
  /\ req[c].restaurantId = req[d].restaurantId
  /\ req[c].sectorId = req[d].sectorId
  /\ Range(cand[c].tableIds) = Range(cand[d].tableIds)
  /\ cand[c].start = cand[d].start

\* C23 (as stated): two booking transactions whose selected candidates
\* conflict (a shared table, overlapping intervals) are never both inside the
\* locked section, also when the candidates differ in start or table set.
C23_ConflictingAreSerialized ==
  \A c, d \in Calls :
    (c # d /\ C23_InLockedSection(c) /\ C23_InLockedSection(d))
    => ~C23_Conflict(cand[c], cand[d])

\* C23 (amended): two booking transactions whose selected candidates have the
\* same venue, sector, table set and start time are never both inside the
\* locked section.
C23_SameSlotIsSerialized ==
  \A c, d \in Calls :
    (c # d /\ C23_InLockedSection(c) /\ C23_InLockedSection(d))
    => ~C23_SameSlot(c, d)

\* two transactions selected the same candidate: one is inside the locked
\* section, the other has passed the internal lock and waits for the key
C23_Witness ==
  \E c, d \in Calls :
    /\ C23_InLockedSection(c)
    /\ pc[d] = "awaitKey"
    /\ cand[d] = cand[c] /\ C23_SameSlot(c, d)

\* a step of the approve route that changed the status of a booking
C24_ApproveStep ==
  \E id \in ReviewIds :
    /\ ReviewAnswer(id) = "ok"
    /\ probe' = [op |-> "approve", args |-> id, out |-> "ok"]
    /\ bookings' = updateBooking(bookings, id, "CONFIRMED")

C24_NoOverlap(bks) ==
  \A a, b \in bks :
    (/\ a # b
     /\ a.status = "CONFIRMED" /\ b.status = "CONFIRMED"
     /\ SharesTable(a, b))
    => ~Overlaps(a, b)

\* C24: an approve that starts where no table is referenced by two
\* overlapping CONFIRMED bookings ends in such a state too, also when another
\* booking was committed on the same tables and time while the approved one
\* was PENDING.
C24_ApprovePreservesNonOverlap ==
  [][(C24_ApproveStep /\ C24_NoOverlap(bookings)) => C24_NoOverlap(bookings')]_vars

\* C25: every CONFIRMED booking references at least one table: a table-less
\* waitlist placeholder never becomes CONFIRMED, whatever book, approve,
\* reject and cancel operations are made.
C25_ConfirmedHasTables ==
  \A b \in bookings : b.status = "CONFIRMED" => b.tableIds # <<>>

\* a step of the approve or of the reject route
C26_ReviewStep ==
  /\ probe'.op \in {"approve", "reject"}
  /\ probe.op \in {"approve", "reject"} => probe' # probe

C26_OthersUntouched(id) ==
  /\ { b \in bookings' : b.id # id } = { b \in bookings : b.id # id }
  /\ waitlist' = waitlist
  /\ idempotencyCache' = idempotencyCache

\* C26: approve and reject act on PENDING bookings only. For an unknown id
\* they answer not_found, for a booking that is not PENDING they answer an
\* error, and in both cases the store is as before. A successful approve
\* turns the status of that booking into CONFIRMED and leaves its tables,
\* party size, start and end, and every other booking, as they were.
C26_ReviewActsOnPendingOnly ==
  [][C26_ReviewStep =>
       /\ C26_OthersUntouched(probe'.args)
       /\ (\A b \in bookings : b.id # probe'.args)
          => probe'.out = "not_found" /\ bookings' = bookings
       /\ \A b \in bookings :
            (b.id = probe'.args /\ b.status # "PENDING")
            => probe'.out = "invalid_input" /\ bookings' = bookings
       /\ \A b \in bookings :
            (b.id = probe'.args /\ b.status = "PENDING" /\ probe'.op = "approve")
            => /\ probe'.out = "ok"
               /\ \E a \in bookings' :
                    /\ a.id = b.id /\ a.status = "CONFIRMED"
                    /\ a.tableIds = b.tableIds /\ a.partySize = b.partySize
                    /\ a.start = b.start /\ a.end = b.end
                    /\ \A a2 \in bookings' : a2.id = b.id => a2 = a]_vars

\* C26 witness: the last review was an approve of a booking that was
\* CONFIRMED already, and it was refused
C26_Witness ==
  /\ probe.op = "approve" /\ probe.out = "invalid_input"
  /\ \E b \in bookings : b.id = probe.args /\ b.status = "CONFIRMED" /\ b.tableIds # <<>>

\* C27: a replay in which no call of createBooking had a candidate, and
\* beside which no other call ran, promotes nothing and leaves the waitlist
\* and the booking store as they were when it started: the entries stay
\* queued, and no WaitlistEntry and no Booking is created for them.
C27_UnseatableReplayChangesNothing ==
  (/\ replay.phase = "finished" /\ replay.quiet
   /\ replay.calls # {}
   /\ \A c \in replay.calls : feasible[c] = 0)
  => /\ replay.promoted = <<>>
     /\ {e.id : e \in waitlist} = replay.waitlistAtStart
     /\ {b.id : b \in bookings} = replay.bookingsAtStart

\* the entries queued before entry e for its sector and date at the start of
\* the replay
C28_EarlierThan(e) ==
  { w \in waitlist : /\ w.id \in replay.waitlistAtStart
                     /\ w.sectorId = e.sectorId /\ w.date = e.date
                     /\ w.createdAt < e.createdAt }

\* C28: the replay visits the entries of the sector and date in order of
\* creation, and the entry it promotes is the earliest one that can be seated
\* with tables: its booking holds tables, and every entry created before it
\* was tried first and had no candidate.
C28_PromotesEarliestSeatable ==
  (replay.phase = "finished" /\ replay.quiet /\ replay.promoted # <<>>)
  => /\ HoldsSlot(replay.call)
     /\ Cardinality(replay.calls \ {replay.call})
          = Cardinality(C28_EarlierThan(replay.promoted[1]))
     /\ \A c \in replay.calls \ {replay.call} :
          /\ feasible[c] = 0
          /\ req[c].durationMinutes
               \in {w.durationMinutes : w \in C28_EarlierThan(replay.promoted[1])}

\* the entries the replay started in this step goes through
C29_Visited ==
  (IF replay'.current = NoEntry THEN {} ELSE {replay'.current}) \cup Range(replay'.rest)

\* the step began a replay for the sector and the local date of booking b
C29_ReplayBegins(b) ==
  /\ replay' # replay
  /\ replay'.phase \in {"running", "finished"}
  /\ replay'.sectorId = b.sectorId
  /\ C29_Visited = { e \in waitlist : e.sectorId = b.sectorId /\ e.date = LocalDate(b.start) }

\* C29: every step that removes a booking, a cancel of any booking or a
\* reject of a PENDING one, begins a waitlist replay over the entries queued
\* for the booking's sector and for the venue-local date on which it starts.
C29_RemovalTriggersReplay ==
  [][\A b \in bookings :
       (\A x \in bookings' : x.id # b.id) => C29_ReplayBegins(b)]_vars

C30_FailureKinds == {"invalid_input", "not_found", "outside_service_window", "no_capacity"}

C31_Starts(a) ==
  { t \in toZonedIso(ProbeDate, 0)..(toZonedIso(ProbeDate, MinutesPerDay - 1) - a.durationMinutes) :
      /\ t % SlotMinutes = 0
      /\ HasRequestedWindow(a.window) =>
           /\ toZonedIso(ProbeDate, a.window.start) <= t
           /\ t + a.durationMinutes <= toZonedIso(ProbeDate, a.window.end) }

\* the party fits the tables, and they are all free for the duration at a
\* grid-aligned start
C31_Seats(tables, a) ==
  /\ tables # {}
  /\ C18_SumMin(tables) <= a.partySize /\ a.partySize <= C18_SumMax(tables)
  /\ \E t \in C31_Starts(a) : C21_AllFree(tables, t, a)

\* C31: for a venue with no service windows the whole day is open: when
\* tables that fit the party are free for the requested duration at a
\* grid-aligned time, inside the requested window if one is given,
\* findCandidates returns at least one candidate.
C31_OpenDayYieldsCandidate ==
  (/\ probe.op = "findCandidates"
   /\ probe.args.serviceWindows = <<>>
   /\ \E tables \in SUBSET Range(TerraceTables) : C31_Seats(tables, probe.args))
  => probe.out # <<>>

\* ---- C32
\* C32: no candidate returned by findCandidates, single or combo, overlaps a
\* non-empty blackout of one of its tables, whether the venue has service
\* windows or none.
C32_NoCandidateInBlackout ==
  probe.op = "findCandidates" =>
    \A i \in 1..Len(probe.out) : \A x \in probe.args.bls :
      (x.start < x.end /\ x.tableId \in Range(probe.out[i].tableIds))
      => ~(probe.out[i].start < x.end /\ x.start < probe.out[i].end)

\* ---- C33
\* C33: a blackout with start == end blocks nothing: adding one to a table,
\* inside or at the edge of a free gap, changes neither the gaps of that table
\* nor the candidates of findCandidates.
C33_EmptyBlackoutBlocksNothing ==
  probe.op = "emptyBlackout" =>
    /\ probe.out.gapsAfter = probe.out.gapsBefore
    /\ probe.out.candidatesAfter = probe.out.candidatesBefore

\* ---- C34
C34_Slot == SlotMinutes * SecondsPerMinute

\* the grid-aligned starts s with roundUp(gap.start) <= s and
\* s + duration <= roundDown(gap.end), i.e. gap.start <= s and
\* s + duration <= gap.end for s on the grid
C34_Starts(a) ==
  { s \in a.gap.start..a.gap.end :
      /\ s % C34_Slot = 0
      /\ s + a.durationMinutes * SecondsPerMinute <= a.gap.end }

\* C34: for every gap and every duration that is a positive multiple of 15,
\* filterGapsByDuration returns exactly one interval [s, s + duration) for
\* each grid-aligned s that leaves room for the duration inside the gap, and
\* nothing else; a gap too short after rounding yields none.
C34_OneSlotPerGridStart ==
  probe.op = "filterGapsByDuration" =>
    /\ \A i \in 1..Len(probe.out) :
         /\ probe.out[i].start \in C34_Starts(probe.args)
         /\ probe.out[i].end
              = probe.out[i].start + probe.args.durationMinutes * SecondsPerMinute
    /\ \A s \in C34_Starts(probe.args) :
         Cardinality({ i \in 1..Len(probe.out) : probe.out[i].start = s }) = 1

\* ---- C35
RECURSIVE C35_Pow2(_)
C35_Pow2(n) == IF n = 0 THEN 1 ELSE 2 * C35_Pow2(n - 1)

\* C35: for a list of n distinct tables, generateCombinations(list, 2)
\* returns every subset of size 2..n exactly once, 2^n - n - 1 subsets, with no
\* duplicate and no subset of size below 2; for n < 2 it returns the empty
\* list.
C35_EverySubsetOnce ==
  probe.op = "generateCombinations" =>
    LET n == Len(probe.args)
        out == probe.out
    IN /\ n < 2 => out = <<>>
       /\ n >= 2 => Len(out) = C35_Pow2(n) - n - 1
       /\ \A i \in 1..Len(out) :
            /\ Cardinality(Range(out[i])) = Len(out[i])
            /\ Len(out[i]) >= 2
            /\ Range(out[i]) \subseteq Range(probe.args)
       /\ \A i, j \in 1..Len(out) : i # j => Range(out[i]) # Range(out[j])
       /\ \A sub \in SUBSET Range(probe.args) :
            Cardinality(sub) >= 2 => \E i \in 1..Len(out) : Range(out[i]) = sub

\* C35 witness: a list of four tables gave eleven combinations
C35_Witness ==
  /\ probe.op = "generateCombinations"
  /\ Len(probe.args) = 4
  /\ Len(probe.out) = 11
  /\ \E i \in 1..Len(probe.out) : Len(probe.out[i]) = 4

\* ---- C36
\* C36: in the display score kind dominates: every single-table candidate of
\* a result has a strictly lower score than every combo candidate of the same
\* result.
C36_SingleScoresBelowCombo ==
  probe.op = "score" =>
    \A i, j \in 1..Len(probe.out) :
      (probe.out[i].kind = "single" /\ probe.out[j].kind = "combo")
      => probe.out[i].score < probe.out[j].score

\* ---- C37
\* invocation c ends in this step and no other invocation was unfinished
\* while it ran
C37_EndsAlone(c) ==
  /\ pc[c] # "done" /\ pc'[c] = "done"
  /\ inFlightAtCall'[c] = {}
  /\ \A d \in Calls \ {c} : pc[d] \in {"idle", "done"} /\ c \notin inFlightAtCall[d]

\* C37: discover and book agree: when the candidate list for the parameters
\* of a book call was not empty as the call was made, and nothing else ran
\* until it ended, the call commits a booking on the tables and the interval
\* of the first candidate of the list; it neither fails nor queues.
C37_BookCommitsDiscoversFirst ==
  [][\A c \in Calls :
       (/\ C37_EndsAlone(c)
        /\ req'[c].origin = "http" /\ req'[c].key = None
        /\ feasible'[c] >= 1)
       => /\ result'[c].kind = "ok"
          /\ \E b \in bookings' \ bookings :
               /\ b.id = result'[c].bookingId
               /\ b.tableIds = cand'[c].tableIds /\ b.tableIds # <<>>
               /\ b.start = cand'[c].start /\ b.end = cand'[c].end]_vars

\* ---- C38
\* C38: no booking is committed with tables on an interval that overlaps a
\* blackout stored for one of those tables at the moment of the commit,
\* whenever the blackout was stored (before the call or while the call
\* waited for its lock).
C38_NoCommitIntoBlackout ==
  [][\A b \in bookings' \ bookings :
       \A x \in blackouts :
         ~(/\ \E i \in 1..Len(b.tableIds) : b.tableIds[i] = x.tableId
           /\ x.start < x.end
           /\ x.start < b.end /\ x.end > b.start)]_vars

\* ---- C39
\* the calendar date, in the venue's timezone, of an instant
C39_LocalDate(ts) == (ts + TzOffsetMinutes) \div MinutesPerDay

\* C39: getBookingsByTablesAndDate(tableIds, date) returns exactly the
\* CONFIRMED bookings of the store that reference one of the tables and start
\* on that date of the venue's calendar, at whatever time of the day they
\* start, and no PENDING or CANCELLED booking.
C39_QueryReturnsLocalDay ==
  probe.op = "getBookingsByTablesAndDate" =>
    Range(probe.out) =
      { b \in probe.args.bks :
          /\ b.status = "CONFIRMED"
          /\ Range(b.tableIds) \cap Range(probe.args.tableIds) # {}
          /\ C39_LocalDate(b.start) = probe.args.date }

\* ---- C40
\* C40: the lock table holds entries only for keys that are held or waited
\* on: once the holder of a key has released and no other caller waits for
\* the key, has(key) is false.
C40_LockTableHoldsOnlyLiveKeys ==
  \A key \in DOMAIN locks :
    \E c \in Calls : lockKey[c] = key /\ pc[c] \in {"awaitKey", "locked"}

====
